---- MODULE Spec2Model ----
(***************************************************************************)
(* Shared variable store (useVar), REST cache with TTL (useRest,           *)
(* useRestRefresh, useRestResetter) and the server renderers / client      *)
(* bootstrap (makeRenderer, run) of react-klbfw-hooks.                     *)
(*                                                                         *)
(* One store (the Context value) is modelled.  `mode` says who owns it:    *)
(*   "client"  the process-wide store created by run() in the browser,     *)
(*   "router"  the store of one request served by makeRenderer of ssr.js,  *)
(*   "loop"    the store of one request served by the promise-driven       *)
(*             makeRenderer (go / fin).                                    *)
(***************************************************************************)
EXTENDS Integers, Sequences, FiniteSets, TLC

\* ------------------------------------------------------------------ bounds
MaxFetches == 2      \* transport GETs issued in one behaviour
MaxTime    == 3      \* last value of the clock
MaxResets  == 1      \* resetAll() calls that replace a namespace
MaxPasses  == 2      \* render passes of one server request / client session
MaxReads   == 2      \* REST hook calls in one render pass
MaxTwoResets    == 2  \* resetAll() calls where two components read the cache
MaxChainPasses  == 4  \* render passes of a request for the chained page
MaxChainFetches == 3  \* transport GETs of a request for the chained page
MaxMounts       == 2  \* unmounts of one component in a behaviour

\* ----------------------------------------------------------- JS data values
\* A JS value: t is its kind, x its content; an envelope {value: r} or
\* {error: e} carries the kind and content of r / e in pt, px.
JS(t, x) == [t |-> t, x |-> x, pt |-> "", px |-> ""]
Undefined == JS("undefined", "")
Null      == JS("null", "")
JSTrue    == JS("boolean", "true")
JSFalse   == JS("boolean", "false")
Num(s)    == JS("number", s)
Str(s)    == JS("string", s)
Obj(s)    == JS("object", s)
\* a variant of the success envelope: the response itself, unwrapped
EnvValue_Bare(r) == r
EnvValue(r) == [t |-> "envValue", x |-> "", pt |-> r.t, px |-> r.x]
EnvError(e) == [t |-> "envError", x |-> "", pt |-> e.t, px |-> e.x]

\* v.value and v.error of a non-null value v (a missing property is undefined)
PropValue(v) == IF v.t = "envValue" THEN JS(v.pt, v.px) ELSE Undefined
PropError(v) == IF v.t = "envError" THEN JS(v.pt, v.px) ELSE Undefined

\* JS truthiness, `v == null`, typeof
Truthy(v) ==
    CASE v.t \in {"undefined", "null"} -> FALSE
      [] v.t = "boolean" -> v.x = "true"
      [] v.t = "number"  -> v.x # "0"
      [] v.t = "string"  -> v.x # ""
      [] OTHER -> TRUE
IsNullish(v) == v.t \in {"undefined", "null"}
TypeOf(v) ==
    IF v.t \in {"null", "object", "envValue", "envError"} THEN "object" ELSE v.t

\* numbers that may be undefined (restData.time, cacheLifeTime)
NumUndef == [def |-> FALSE, n |-> 0]
NumOf(n) == [def |-> TRUE, n |-> n]
TruthyNum(m) == m.def /\ m.n # 0

\* ------------------------------------------------------------------- names
\* Variable names are character strings, modelled as sequences of characters
\* so that charAt(0) and concatenation are computed.
AtRest     == <<"@", "r", "e", "s", "t">>
AtPromises == <<"@", "p", "r", "o", "m", "i", "s", "e", "s">>
CharAt0(n) == IF Len(n) = 0 THEN "" ELSE n[1]

Paths      == { <<"a">> }
\* params as passed by the caller: undefined, or a string
ParamsIn   == { [t |-> "undefined", s |-> <<>>],
                [t |-> "string", s |-> <<"?">>] }
\* plain (non REST) variable names used by components
PlainNames == { <<"x">>, <<"@", "x">> }

\* rest.js: switch(typeof params)
CanonParams(p) ==
    CASE p.t = "string" -> p.s
      [] p.t = "undefined" -> <<>>
      [] OTHER -> p.s
\* rest.js: path+"?"+params
RestKey(path, params) == path \o <<"?">> \o params

RestKeys == { RestKey(p, CanonParams(q)) : p \in Paths, q \in ParamsIn }
VarNames == RestKeys \cup PlainNames

Comps  == {"c1"}
\* every component instance of the model; "c2" renders only where two
\* components, or two requests, are looked at
AllComps == {"c1", "c2"}
\* the components that the application unmounts; "c1" stays mounted for the
\* lifetime of the page, so the cleanup of its effect never runs
Transient == {"c2"}
TTLs   == { NumUndef, NumOf(0), NumOf(1) }

\* ------------------------------------------------------------------- state
VARIABLES
    mode,        \* "client", "router" or "loop": who owns the store
    pc,          \* position of the renderer / of the client render cycle
    now,         \* new Date().getTime()
    ctx,         \* the store: name -> [value, subscribers]; DOMAIN = own properties
    hasRest,     \* ctx.hasOwnProperty("@rest")
    ctxRest,     \* ctx["@rest"]: key -> restData
    gen,         \* number of namespaces replaced so far (identity of ctx["@rest"])
    fetches,     \* transport GETs in issue order, with their settlement state
    hasPromises, \* ctx.hasOwnProperty("@promises")
    promises,    \* ctx["@promises"]: fetch ids registered in the current pass
    hooks,       \* per component: v.key of its useState, NoKey before its first render
    inst,        \* per component: which mount its setV belongs to
    notified,    \* subscriber callbacks invoked by the last step, in order
    lastRet,     \* per component: what its last hook call returned or threw
    passReads,   \* REST hook calls per key in the current render pass
    passGets,    \* transport GETs per key issued by the current render pass
    startClean,  \* keys with no cache entry and a null/absent variable at pass start
    passes,      \* render passes started
    match,       \* what the routing query returned for the request
    result,      \* the renderer's result object
    cbkCount,    \* times the renderer's callback was invoked
    reqs,        \* two requests of one renderer: each invocation's varCtx
    treeTTL,     \* the cacheLifeTime that the reads of the chained tree pass
    userProm,    \* the promise a component hands to usePromise
    boot,        \* what run() read from getInitialState() and the mounts made
    effects,     \* per component: the varName its useEffect cleanup closed over
    registry,    \* the global-registry cache: globalThis._useRest and its users
    pre          \* the pre-render promises given to run / makeRenderer

storeVars == <<ctx, hasRest, ctxRest, gen, fetches, hasPromises, promises>>
compVars  == <<hooks, inst, lastRet>>
passVars  == <<passReads, passGets, startClean, passes>>
reqVars   == <<match, result, cbkCount>>
auxRest   == <<reqs, treeTTL, pre, userProm, boot, registry>>
auxVars   == <<auxRest, effects>>
vars == <<mode, pc, now, storeVars, compVars, notified, passVars, reqVars,
          auxVars>>

NoKey == <<>>
\* no invocation of the renderer has started
Requests == {"r1", "r2"}
NoReqs ==
    [r \in Requests |-> [phase |-> "new", store |-> <<>>, own |-> <<>>,
                         snap |-> <<>>]]
NoRet == [kind |-> "none", val |-> Undefined, name |-> NoKey]
SetV(c) == <<c, inst[c]>>

RECURSIVE SumOver(_, _)
SumOver(f, S) ==
    IF S = {} THEN 0
    ELSE LET k == CHOOSE x \in S : TRUE IN f[k] + SumOver(f, S \ {k})
PassReadCount == SumOver(passReads, RestKeys)

\* a fixed enumeration of a finite set (Set.prototype.forEach visits each
\* member once; the order is not relied upon)
RECURSIVE SetToSeq(_)
SetToSeq(S) ==
    IF S = {} THEN <<>>
    ELSE LET e == CHOOSE e \in S : TRUE IN <<e>> \o SetToSeq(S \ {e})

\* ---------------------------------------------------------------- ssr.js
\* the setter closure of an entry: ctx[varName].value = newVal
SetterCtx(c, name, newVal) == [c EXCEPT ![name].value = newVal]
\* a variant of the setter that calls the subscribers of every variable
SetterCalls_All(c, name, newVal) ==
    LET subs == SetToSeq(UNION { c[m].subscribers : m \in DOMAIN c })
    IN  [i \in 1..Len(subs) |-> [key |-> name, newVal |-> newVal, cb |-> subs[i]]]

\* ... ctx[varName].subscribers.forEach(cb => cb({key: varName, newVal}))
SetterCalls(c, name, newVal) ==
    LET subs == SetToSeq(c[name].subscribers)
    IN  [i \in 1..Len(subs) |-> [key |-> name, newVal |-> newVal, cb |-> subs[i]]]

\* { value, subscribers: new Set(), setter: newVal => ... }; `setter` counts
\* the closures created for the name, so that a replaced setter is a new one
NewEntry(defaultValue) ==
    [value |-> defaultValue, subscribers |-> {}, setter |-> 1]

\* a variant of getVarSetter that stores the default in an entry that exists
getVarSetter_Default(c, name, defaultValue) ==
    IF name \notin DOMAIN c THEN c @@ (name :> NewEntry(defaultValue))
    ELSE [c EXCEPT ![name].value = defaultValue]

\* a variant of getVarSetter that makes a new setter closure at every call
getVarSetter_Fresh(c, name, defaultValue) ==
    IF name \notin DOMAIN c THEN c @@ (name :> NewEntry(defaultValue))
    ELSE [c EXCEPT ![name].setter = @ + 1]

\* getVarSetter(ctx, varName, defaultValue): the store afterwards
getVarSetter(c, name, defaultValue) ==
    IF name \notin DOMAIN c THEN c @@ (name :> NewEntry(defaultValue)) ELSE c

\* a variant of useVar that stores the default in an entry that exists
useVar_Overwrite(c, comp, name, defaultValue) ==
    LET old == hooks[comp]
        c1 == IF old # NoKey /\ old # name /\ old \in DOMAIN c
              THEN [c EXCEPT ![old].subscribers = @ \ {SetV(comp)}]
              ELSE c
        c2 == IF name \notin DOMAIN c1
              THEN c1 @@ (name :> NewEntry(defaultValue))
              ELSE [c1 EXCEPT ![name].value = defaultValue]
    IN  [c2 EXCEPT ![name].subscribers = @ \cup {SetV(comp)}]

\* a variant of useVar that keeps the subscription of the hook's old variable
useVar_NoRebind(c, comp, name, defaultValue) ==
    LET c2 == IF name \notin DOMAIN c
              THEN c @@ (name :> NewEntry(defaultValue))
              ELSE c
    IN  [c2 EXCEPT ![name].subscribers = @ \cup {SetV(comp)}]

\* useVar(varName, defaultValue) called by component comp: the store afterwards
useVar(c, comp, name, defaultValue) ==
    LET old == hooks[comp]
        c1 == IF old # NoKey /\ old # name /\ old \in DOMAIN c
              THEN [c EXCEPT ![old].subscribers = @ \ {SetV(comp)}]
              ELSE c
        c2 == IF name \notin DOMAIN c1
              THEN c1 @@ (name :> NewEntry(defaultValue))
              ELSE c1
    IN  [c2 EXCEPT ![name].subscribers = @ \cup {SetV(comp)}]

\* --------------------------------------------------------------- rest.js
\* a variant of the expiry test that never compares the age with the TTL
cacheLifeTimeReached_NoAge(cacheLifeTime, time) ==
    TruthyNum(cacheLifeTime) /\ TruthyNum(time)

\* (cacheLifeTime && restData.time && (now - restData.time) > cacheLifeTime)
cacheLifeTimeReached(cacheLifeTime, time) ==
    /\ TruthyNum(cacheLifeTime)
    /\ TruthyNum(time)
    /\ (now - time.n) > cacheLifeTime.n

\* a variant of the GET that is sent without the entry's params
NewFetch_NoParams(rd, key, auto, registered, keep) ==
    [key |-> key, gen |-> rd.gen, path |-> rd.path, params |-> <<>>,
     st |-> "pending", out |-> Null, auto |-> auto, reg |-> registered,
     pass |-> passes, keep |-> keep]

\* let prom = rest(restData.path, "GET", restData.params)
NewFetch(rd, key, auto, registered, keep) ==
    [key |-> key, gen |-> rd.gen, path |-> rd.path, params |-> rd.params,
     st |-> "pending", out |-> Null, auto |-> auto, reg |-> registered,
     pass |-> passes, keep |-> keep]

\* a GET all of whose handlers have run
DoneFetch(auto) ==
    [key |-> NoKey, gen |-> 0, path |-> <<>>, params |-> <<>>, st |-> "done",
     out |-> Null, auto |-> auto, reg |-> FALSE, pass |-> 0, keep |-> FALSE]

\* setPromise(ctx, prom): a no-op in ssr.js; the promise-driven renderer's
\* version adds prom to ctx["@promises"] when the store has one
setPromise(ps, id) ==
    IF mode = "loop" /\ hasPromises THEN ps \cup {id} ELSE ps

\* the return projection of useRest
Projection(v, noThrow) ==
    IF IsNullish(v) THEN [kind |-> "ret", val |-> Null]
    ELSE IF Truthy(PropError(v))
         THEN IF noThrow = JSTrue
              THEN [kind |-> "ret", val |-> JSFalse]
              ELSE [kind |-> "throw", val |-> PropError(v)]
         ELSE [kind |-> "ret", val |-> PropValue(v)]

\* a variant of the test before set(null) that accepts every truthy flag
KeepsValue_Truthy(value) == Truthy(value)

\* `if (value !== true) restData.set(null)`: the flag that skips set(null)
KeepsValue(value) == value = JSTrue

\* restData.refresh(value), with c the store it runs against; auto says the
\* call is the one wrapped in setPromise(ctx, ...).  Yields the new store,
\* fetch list, barrier, the callbacks invoked and the return value: the
\* number of the GET whose promise is returned, 0 for undefined.
refresh(c, fs, ps, rd, key, value, auto) ==
    IF TypeOf(value) = "object"
    THEN [ctx |-> SetterCtx(c, key, EnvValue(value)),
          fetches |-> fs, promises |-> ps, issued |-> FALSE,
          calls |-> SetterCalls(c, key, EnvValue(value)), ret |-> 0]
    ELSE LET id  == Len(fs) + 1
             ps1 == IF auto THEN setPromise(ps, id) ELSE ps
             fs1 == Append(fs, NewFetch(rd, key, auto, id \in ps1,
                                        KeepsValue(value)))
         IN  IF ~KeepsValue(value)
             THEN [ctx |-> SetterCtx(c, key, Null),
                   fetches |-> fs1, promises |-> ps1, issued |-> TRUE,
                   calls |-> SetterCalls(c, key, Null), ret |-> id]
             ELSE [ctx |-> c, fetches |-> fs1, promises |-> ps1,
                   issued |-> TRUE, calls |-> <<>>, ret |-> id]

\* variants of the trigger test: one that also fetches for a null value of an
\* entry found in the cache, one that fetches for every entry just created
ShouldFetch_Eager(isNew, v, reached) == IsNullish(v) \/ reached
ShouldFetch_New(isNew, v, reached) == isNew \/ reached
\* ... and one that fetches only for an expired entry
ShouldFetch_Expired(isNew, v, reached) == reached
\* ... and one that fetches again when the variable holds a failure
ShouldFetch_Retry(isNew, v, reached) ==
    IF isNew THEN IsNullish(v) \/ reached ELSE reached \/ v.t = "envError"

\* `if (v == null || cacheLifeTimeReached)` for an entry just created,
\* `if (cacheLifeTimeReached)` for one found in ctx["@rest"]
ShouldFetch(isNew, v, reached) ==
    IF isNew THEN IsNullish(v) \/ reached ELSE reached

\* the body shared by useRest (subscribe = TRUE: useVar) and useRestRefresh
\* (subscribe = FALSE: getVarSetter), up to the return statement
RestHook(comp, path, paramsIn, cacheLifeTime, subscribe) ==
    LET params == CanonParams(paramsIn)
        key    == RestKey(path, params)
        c1     == IF subscribe THEN useVar(ctx, comp, key, Null)
                  ELSE getVarSetter(ctx, key, Null)
        v      == c1[key].value
        isNew  == ~(hasRest /\ key \in DOMAIN ctxRest)
        rd     == IF isNew
                  THEN [path |-> path, params |-> params, time |-> NumUndef,
                        gen |-> gen]
                  ELSE ctxRest[key]
        reached == cacheLifeTimeReached(cacheLifeTime, rd.time)
        trigger == ShouldFetch(isNew, v, reached)
        rd1    == IF trigger THEN [rd EXCEPT !.time = NumUndef] ELSE rd
        r      == IF trigger
                  THEN refresh(c1, fetches, promises, rd1, key, Undefined, TRUE)
                  ELSE [ctx |-> c1, fetches |-> fetches, promises |-> promises,
                        issued |-> FALSE, calls |-> <<>>]
        rest0  == IF hasRest THEN ctxRest ELSE <<>>
    IN  [key |-> key, v |-> v, trigger |-> trigger, r |-> r,
         rest |-> IF isNew THEN rest0 @@ (key :> rd1)
                  ELSE [rest0 EXCEPT ![key] = rd1],
         rd |-> rd1, isNew |-> isNew]

\* ------------------------------------------------------------ environment
K1 == RestKey(<<"a">>, <<>>)
\* what getInitialState() may hold on the client (a server's result.initial)
Snapshots ==
    { <<>>, (K1 :> EnvValue(Obj("seed"))), (K1 :> Null) }
\* what the transport answers to GET number id: it fulfils with a response
\* of its own, or rejects with an error object or with a falsy reason
Outcomes(id) ==
    { EnvValue(Obj(ToString(id))), EnvError(Obj("e")), EnvError(Num("0")) }
NoThrows    == { Undefined, JSTrue }
RefreshArgs == { Undefined, JSTrue, Obj("seed"), Str("s"), Num("1") }
PlainVals   == { Num("0"), Num("1") }
\* a variant of the redirect test that knows fewer status codes
RedirectCodes_Few == {301, 302}
\* the routing query's answer: a data context, or a Response
RedirectCodes == {301, 302, 303, 307, 308}
MatchResults ==
    { [kind |-> "data", status |-> 200, location |-> "" ] } \cup
    { [kind |-> "response", status |-> st, location |-> "/about"] :
        st \in {301, 304, 308} }
NoMatch == [kind |-> "none", status |-> 0, location |-> ""]

\* a variant of the seeding loop that installs every name with null
IdleCtx_Blank(snapshot) ==
    [n \in DOMAIN snapshot |-> NewEntry(Null)]

\* for (varName in init) ctx[varName] = { value: init[varName], ... }
IdleCtx(snapshot) ==
    [n \in DOMAIN snapshot |-> NewEntry(snapshot[n])]

\* ------------------------------------------ the global-registry cache
\* JS values of the registry: a leaf (null, undefined, a string, a response,
\* an error object) or an object with its properties
RNull      == [kind |-> "null", s |-> "", props |-> <<>>]
RUndefined == [kind |-> "undefined", s |-> "", props |-> <<>>]
RStr(s)    == [kind |-> "string", s |-> s, props |-> <<>>]
RObj(f)    == [kind |-> "object", s |-> "", props |-> f]
\* v[name]
Prop(v, name) ==
    IF v.kind = "object" /\ name \in DOMAIN v.props THEN v.props[name]
    ELSE RUndefined
RNullish(v) == v.kind \in {"null", "undefined"}
RTruthy(v)  == ~RNullish(v) /\ ~(v.kind = "string" /\ v.s = "")

\* {error: null, value: res} and {error: err, value: null}
ResValue(res) == RObj(("error" :> RNull) @@ ("value" :> res))
ResError(err) == RObj(("error" :> err) @@ ("value" :> RNull))

\* a process whose globalThis._useRest is undefined and whose components
\* have not rendered; `init` is what getInitial() last returned
NoRegistry ==
    [defined |-> FALSE, tab |-> <<>>, gets |-> 0,
     view |-> [c \in AllComps |->
                 [v |-> RNull, ret |-> [kind |-> "none", val |-> RUndefined]]],
     side |-> "server", hasInit |-> FALSE, init |-> <<>>]

\* the state common to a fresh store, whoever owns it
InitFields ==
    /\ now = 1
    /\ hasRest = FALSE
    /\ ctxRest = <<>>
    /\ gen = 0
    /\ fetches = <<>>
    /\ hasPromises = FALSE
    /\ promises = {}
    /\ hooks = [c \in AllComps |-> NoKey]
    /\ inst = [c \in AllComps |-> 0]
    /\ notified = <<>>
    /\ lastRet = [c \in AllComps |-> NoRet]
    /\ passReads = [k \in RestKeys |-> 0]
    /\ passGets = [k \in RestKeys |-> 0]
    /\ startClean = {}
    /\ passes = 0
    /\ match = NoMatch
    /\ result = ("uuid" :> <<"u">>) @@ ("initial" :> <<>>)
    /\ cbkCount = 0
    /\ reqs = NoReqs
    /\ userProm = "none"
    /\ effects = [c \in AllComps |-> NoKey]
    /\ registry = NoRegistry

\* no pre-render promises were given to run / makeRenderer
NoPre == [all |-> "none", wait |-> "none"]

\* run() has not been called (a server), or is about to be
NoBoot == [typ |-> "unread", snap |-> <<>>, mounts |-> <<>>]

\* a variant of run() that never hydrates
MountKind_Render(typ) == "render"

\* hydrateRoot when typeof init === "object", createRoot(...).render otherwise
MountKind(typ) == IF typ = "object" THEN "hydrate" ELSE "render"


InitStore ==
    /\ InitFields
    /\ treeTTL = NumUndef
    /\ pre = NoPre

\* run() in the browser: let ctx = {}, seeded from getInitialState()
Init ==
    /\ mode = "client"
    /\ pc = "idle"
    /\ \E snap \in Snapshots : ctx = IdleCtx(snap)
    \* run() has returned after it hydrated the page: its local `init` is gone
    /\ boot = [typ |-> "object", snap |-> <<>>,
               mounts |-> <<MountKind("object")>>]
    /\ InitStore

\* a request arrives at the renderer made by ssr.js: let varCtx = {}
InitRouter ==
    /\ mode = "router"
    /\ pc = "query"
    /\ ctx = <<>>
    /\ boot = NoBoot
    /\ InitStore

\* a request arrives at the promise-driven renderer: let varCtx = {}
InitLoop ==
    /\ mode = "loop"
    /\ pc = "go"
    /\ ctx = <<>>
    /\ boot = NoBoot
    /\ InitStore

\* no microtask is pending: timers, events and responses may run
Stamping == \E i \in 1..Len(fetches) : fetches[i].st = "settled"
Quiet == pc \in {"idle", "await", "done", "crashed"} /\ ~Stamping

\* the pass-local bookkeeping at the start of a render pass (the browser's
\* passes are not numbered)
StartPass ==
    /\ passes' = IF mode = "client" THEN passes ELSE passes + 1
    /\ passReads' = [k \in RestKeys |-> 0]
    /\ passGets' = [k \in RestKeys |-> 0]
    /\ startClean' = { k \in RestKeys :
                         /\ ~(hasRest /\ k \in DOMAIN ctxRest)
                         /\ (k \in DOMAIN ctx => IsNullish(ctx[k].value)) }

\* -------------------------------------------------------- render passes
\* an exception leaves the render pass: the client's pass just ends; ssr.js
\* catches it around renderToString; the promise-driven renderer lets the
\* first go() throw to its caller and catches later ones in .catch()
Thrown(e) ==
    CASE mode = "client" ->
            /\ pc' = "idle"
            /\ UNCHANGED reqVars
      [] mode = "router" \/ (mode = "loop" /\ passes > 1) ->
            /\ pc' = "done"
            /\ result' = ("error" :> e) @@ result
            /\ cbkCount' = cbkCount + 1
            /\ UNCHANGED match
      [] OTHER ->
            /\ pc' = "crashed"
            /\ UNCHANGED reqVars

\* a component's hook call on name returned or threw ret; what the components
\* returned is what the pass renders
Returned(comp, name, ret) ==
    /\ lastRet' = [lastRet EXCEPT ![comp] =
                      [kind |-> ret.kind, val |-> ret.val, name |-> name]]
    /\ IF ret.kind = "throw"
       THEN Thrown(ret.val)
       ELSE UNCHANGED <<pc, reqVars>>

\* a component renders with useRest(path, params, noThrow, cacheLifeTime);
\* nr and nf bound the hook calls of a pass and the GETs of a behaviour
UseRestWithin(nr, nf, comp, path, paramsIn, noThrow, cacheLifeTime) ==
    /\ pc = "render"
    /\ PassReadCount < nr
    /\ LET h == RestHook(comp, path, paramsIn, cacheLifeTime, TRUE)
       IN  /\ h.r.issued => Len(fetches) < nf
           /\ ctx' = h.r.ctx
           /\ hasRest' = TRUE
           /\ ctxRest' = h.rest
           /\ fetches' = h.r.fetches
           /\ promises' = h.r.promises
           /\ hooks' = [hooks EXCEPT ![comp] = h.key]
           /\ notified' = h.r.calls
           /\ passReads' = [passReads EXCEPT ![h.key] = @ + 1]
           /\ passGets' = IF h.r.issued THEN [passGets EXCEPT ![h.key] = @ + 1]
                          ELSE passGets
           /\ Returned(comp, h.key, Projection(h.v, noThrow))
    /\ UNCHANGED <<auxVars, mode, now, gen, hasPromises, inst, startClean, passes>>

UseRest(comp, path, paramsIn, noThrow, cacheLifeTime) ==
    UseRestWithin(MaxReads, MaxFetches, comp, path, paramsIn, noThrow,
                  cacheLifeTime)

\* a component renders with useRestRefresh(path, params, cacheLifeTime)
UseRestRefresh(comp, path, paramsIn, cacheLifeTime) ==
    /\ pc = "render"
    /\ PassReadCount < MaxReads
    /\ LET h == RestHook(comp, path, paramsIn, cacheLifeTime, FALSE)
       IN  /\ h.r.issued => Len(fetches) < MaxFetches
           /\ ctx' = h.r.ctx
           /\ hasRest' = TRUE
           /\ ctxRest' = h.rest
           /\ fetches' = h.r.fetches
           /\ promises' = h.r.promises
           /\ notified' = h.r.calls
           /\ passReads' = [passReads EXCEPT ![h.key] = @ + 1]
           /\ passGets' = IF h.r.issued THEN [passGets EXCEPT ![h.key] = @ + 1]
                          ELSE passGets
    /\ UNCHANGED <<auxVars, mode, pc, now, gen, hasPromises, compVars, startClean,
                   passes, reqVars>>

\* a component renders with useVar(varName, defaultValue)
UseVar(comp, name, defaultValue) ==
    /\ pc = "render"
    /\ ctx' = useVar(ctx, comp, name, defaultValue)
    /\ hooks' = [hooks EXCEPT ![comp] = name]
    /\ notified' = <<>>
    /\ Returned(comp, name, [kind |-> "ret", val |-> ctx'[name].value])
    /\ UNCHANGED <<auxVars, mode, now, hasRest, ctxRest, gen, fetches,
                   hasPromises, promises, inst, passReads, passGets,
                   startClean, passes>>

\* a component renders with useVarSetter(varName, defaultValue)
UseVarSetter(name, defaultValue) ==
    /\ pc = "render"
    /\ ctx' = getVarSetter(ctx, name, defaultValue)
    /\ notified' = <<>>
    /\ UNCHANGED <<auxVars, mode, pc, now, hasRest, ctxRest, gen, fetches,
                   hasPromises, promises, compVars, passReads, passGets,
                   startClean, passes, reqVars>>

\* ------------------------------------------------------------- the client
\* React starts rendering the mounted tree (run() has seeded the store)
BeginPass ==
    /\ mode = "client"
    /\ Quiet
    /\ pc = "idle"
    /\ pc' = "render"
    /\ StartPass
    /\ lastRet' = [c \in AllComps |-> NoRet]
    /\ notified' = <<>>
    /\ UNCHANGED <<auxVars, mode, now, storeVars, hooks, inst, reqVars>>

\* application code calls restData.refresh(value) of the entry of key
ManualRefresh(key, value) ==
    /\ mode = "client"
    /\ Quiet
    /\ hasRest /\ key \in DOMAIN ctxRest
    /\ LET r == refresh(ctx, fetches, promises, ctxRest[key], key, value, FALSE)
       IN  /\ r.issued => Len(fetches) < MaxFetches
           /\ ctx' = r.ctx
           /\ fetches' = r.fetches
           /\ promises' = r.promises
           /\ notified' = r.calls
    /\ UNCHANGED <<auxVars, mode, pc, now, hasRest, ctxRest, gen, hasPromises,
                   compVars, passVars, reqVars>>

\* a variant of the erasure loop that stops after the first entry
ResetCalls_First(c, ks) ==
    IF ks = <<>> THEN <<>> ELSE SetterCalls(c, Head(ks), Null)

\* the callbacks of resetAll(): oldRest[k].set(null) for each k in oldRest
RECURSIVE ResetCalls(_, _)
ResetCalls(c, ks) ==
    IF ks = <<>> THEN <<>>
    ELSE SetterCalls(c, Head(ks), Null) \o ResetCalls(c, Tail(ks))

\* the function returned by useRestResetter(); nr bounds the namespaces of a
\* behaviour
ResetAllWithin(nr) ==
    /\ mode = "client"
    /\ Quiet
    /\ IF ~hasRest
       THEN UNCHANGED <<ctx, ctxRest, gen, notified>>
       ELSE /\ gen < nr
            /\ ctxRest' = <<>>
            /\ gen' = gen + 1
            /\ ctx' = [n \in DOMAIN ctx |->
                         IF n \in DOMAIN ctxRest
                         THEN [ctx[n] EXCEPT !.value = Null] ELSE ctx[n]]
            /\ notified' = ResetCalls(ctx, SetToSeq(DOMAIN ctxRest))
    /\ UNCHANGED <<auxVars, mode, pc, now, hasRest, fetches, hasPromises,
                   promises, compVars, passVars, reqVars>>

ResetAll == ResetAllWithin(MaxResets)

\* ---------------------------------------------------------- time, transport
Tick ==
    /\ Quiet
    /\ now < MaxTime
    /\ now' = now + 1
    /\ notified' = <<>>
    /\ UNCHANGED <<auxVars, mode, pc, storeVars, compVars, passVars, reqVars>>

\* a variant of the barrier that continues when any of its promises fulfils
BatchAfter_Any(i, out) ==
    IF mode = "loop" /\ pc = "await" /\ i \in promises
    THEN IF out.t = "envError" THEN "abort" ELSE "go"
    ELSE pc

\* Promise.all(ctx["@promises"]) as seen when GET i settles with out
BatchAfter(i, out) ==
    IF mode = "loop" /\ pc = "await" /\ i \in promises
    THEN IF out.t = "envError" THEN "abort"
         ELSE IF \A j \in promises \ {i} : fetches[j].st # "pending"
              THEN "go" ELSE "await"
    ELSE pc

\* GET i settles: prom.then(res => restData.set({value: res}))
\*                    .catch(e => restData.set({error: e}))
Settle(i, out) ==
    /\ Quiet
    /\ i \in 1..Len(fetches)
    /\ fetches[i].st = "pending"
    /\ fetches' = [fetches EXCEPT ![i].st = "settled", ![i].out = out]
    /\ ctx' = SetterCtx(ctx, fetches[i].key, out)
    /\ notified' = SetterCalls(ctx, fetches[i].key, out)
    /\ pc' = BatchAfter(i, out)
    /\ UNCHANGED <<auxVars, mode, now, hasRest, ctxRest, gen, hasPromises,
                   promises, compVars, passVars, reqVars>>

\* ... .finally(() => restData.time = new Date().getTime()); forget says
\* that a GET all of whose handlers have run, and which no barrier holds, is
\* no longer told apart from other such GETs
StampWith(i, forget) ==
    /\ pc \notin {"go", "render", "query"}
    /\ i \in 1..Len(fetches)
    /\ fetches[i].st = "settled"
    /\ fetches' = [fetches EXCEPT ![i] =
                      IF fetches[i].reg \/ ~forget THEN [@ EXCEPT !.st = "done"]
                      ELSE DoneFetch(fetches[i].auto)]
    /\ LET k == fetches[i].key
       IN  ctxRest' = IF hasRest /\ k \in DOMAIN ctxRest
                         /\ ctxRest[k].gen = fetches[i].gen
                      THEN [ctxRest EXCEPT ![k].time = NumOf(now)]
                      ELSE ctxRest
    /\ notified' = <<>>
    /\ UNCHANGED <<auxVars, mode, pc, now, ctx, hasRest, gen, hasPromises,
                   promises, compVars, passVars, reqVars>>

Stamp(i) == StampWith(i, TRUE)

\* ------------------------------------------------------------ the servers
\* renderToString mounts fresh component instances in every pass
FreshComps ==
    /\ hooks' = [c \in AllComps |-> NoKey]
    /\ inst' = [c \in AllComps |-> passes + 1]
    /\ lastRet' = [c \in AllComps |-> NoRet]

\* a variant of the export loop without the "@" test
ExportedNames_All(c, hr, hp) ==
    DOMAIN c \cup (IF hr THEN {AtRest} ELSE {})
             \cup (IF hp THEN {AtPromises} ELSE {})

\* for (varName in varCtx) { if (varName.charAt(0) === "@") continue; ... }
ExportedNames(c, hr, hp) ==
    { n \in DOMAIN c \cup (IF hr THEN {AtRest} ELSE {})
                     \cup (IF hp THEN {AtPromises} ELSE {}) :
        CharAt0(n) # "@" }
\* result.initial[varName] = varCtx[varName].value
Exported(c, hr, hp) ==
    [n \in ExportedNames(c, hr, hp) |->
        IF n \in DOMAIN c THEN c[n].value ELSE Undefined]

\* result.title ... result.htmlAttributes from Helmet.renderStatic()
\* a variant of the metadata extraction that leaves out result.link
HelmetFields_NoLink ==
    [f \in {"title", "meta", "script", "bodyAttributes",
            "htmlAttributes"} |-> <<"helmet">>]

\* result.title ... result.htmlAttributes, from Helmet.renderStatic()
HelmetFields ==
    [f \in {"title", "meta", "script", "link", "bodyAttributes",
            "htmlAttributes"} |-> <<"helmet">>]

\* what a throwing component, and a throwing Helmet.renderStatic(), raise
RenderError == Obj("renderError")
HelmetError == Obj("helmetError")

\* ssr.js makeRenderer: await query(fetchRequest), the redirect test, and
\* the start of renderToString.  A Response that is no redirect is handed to
\* createStaticRouter as the context: it is rendered with, or an exception
\* reaches the outer catch
Query(m) ==
    /\ mode = "router"
    /\ pc = "query"
    /\ match' = m
    /\ notified' = <<>>
    /\ IF m.kind = "response" /\ m.status \in RedirectCodes
       THEN /\ result' = ("redirect" :> m.location) @@
                         ("statusCode" :> m.status) @@ result
            /\ cbkCount' = cbkCount + 1
            /\ pc' = "done"
            /\ UNCHANGED <<compVars, passVars>>
       ELSE \/ /\ IF pre.all = "none"
                  THEN pc' = "render" /\ StartPass /\ FreshComps
                  ELSE pc' = "prewait" /\ UNCHANGED <<compVars, passVars>>
               /\ UNCHANGED <<result, cbkCount>>
            \/ /\ m.kind = "response"
               /\ result' = ("error" :> Obj("TypeError")) @@ result
               /\ cbkCount' = cbkCount + 1
               /\ pc' = "done"
               /\ UNCHANGED <<compVars, passVars>>
    /\ UNCHANGED <<auxVars, mode, now, storeVars>>

\* the promise-driven makeRenderer: go() up to renderToString; np bounds
\* the passes of a behaviour
GoWithin(np) ==
    /\ mode = "loop"
    /\ pc = "go"
    /\ passes < np
    /\ hasPromises' = TRUE
    /\ promises' = {}
    /\ pc' = "render"
    /\ StartPass
    /\ FreshComps
    /\ notified' = <<>>
    /\ UNCHANGED <<auxVars, mode, now, ctx, hasRest, ctxRest, gen, fetches,
                   reqVars>>

Go == GoWithin(MaxPasses)

\* what the StaticRouter left in `context` during the render
StaticCtxs ==
    { [status |-> 0, url |-> ""], [status |-> 404, url |-> ""],
      [status |-> 0, url |-> "/about"] }

\* fin() of the promise-driven makeRenderer, applied to result r
fin(r, sc) ==
    LET r1 == IF sc.status # 0 THEN ("statusCode" :> sc.status) @@ r ELSE r
    IN  IF sc.url # ""
        THEN ("redirect" :> sc.url) @@ r1
        ELSE HelmetFields @@
             [r1 EXCEPT !["initial"] = Exported(ctx, hasRest, hasPromises)]

\* fin() up to a Helmet.renderStatic() that throws: the status and the
\* exported variables are already in the result
finThrown(r, sc) ==
    LET r1 == IF sc.status # 0 THEN ("statusCode" :> sc.status) @@ r ELSE r
    IN  [r1 EXCEPT !["initial"] = Exported(ctx, hasRest, hasPromises)]

\* a component of the tree throws while it renders
ComponentThrows(comp) ==
    /\ mode # "client"
    /\ pc = "render"
    /\ notified' = <<>>
    /\ Returned(comp, NoKey, [kind |-> "throw", val |-> RenderError])
    /\ UNCHANGED <<auxVars, mode, now, storeVars, hooks, inst, passVars>>

\* useEffect(() => () => ctx[varName].subscribers.delete(setV), []): React
\* runs the effect of a component once, when its first render is committed,
\* so the cleanup it keeps holds the varName of that render; renderToString
\* runs no effect
Effects ==
    IF mode = "client"
    THEN [c \in AllComps |->
            IF c \in Transient /\ effects[c] = NoKey THEN hooks[c]
            ELSE effects[c]]
    ELSE effects

\* the render pass returns without an exception: the browser commits it;
\* on a server, the rest of the handler after renderToString
EndPass ==
    /\ pc = "render"
    /\ notified' = <<>>
    /\ effects' = Effects
    /\ CASE mode = "client" ->
              /\ pc' = "idle"
              /\ lastRet' = [c \in AllComps |-> NoRet]
              /\ UNCHANGED reqVars
         [] mode = "router" ->
              /\ UNCHANGED lastRet
              /\ LET r == ("app" :> lastRet) @@
                          [result EXCEPT !["initial"] =
                               Exported(ctx, hasRest, hasPromises)]
                 IN  \/ result' = HelmetFields @@ r
                     \/ result' = ("error" :> HelmetError) @@ r
              /\ cbkCount' = cbkCount + 1
              /\ pc' = "done"
              /\ UNCHANGED match
         [] OTHER ->
              /\ UNCHANGED <<lastRet, match>>
              /\ LET r == ("app" :> lastRet) @@
                          [n \in DOMAIN result \ {"app"} |-> result[n]]
                 IN  IF promises = {}
                     THEN \E sc \in StaticCtxs :
                            \/ /\ result' = fin(r, sc)
                               /\ cbkCount' = cbkCount + 1
                               /\ pc' = "done"
                            \/ /\ sc.url = ""
                               /\ passes = 1
                               /\ result' = finThrown(r, sc)
                               /\ pc' = "crashed"
                               /\ UNCHANGED cbkCount
                            \/ /\ sc.url = ""
                               /\ passes > 1
                               /\ result' = ("error" :> HelmetError) @@
                                             finThrown(r, sc)
                               /\ cbkCount' = cbkCount + 1
                               /\ pc' = "done"
                     ELSE /\ result' = r
                          /\ pc' = "await"
                          /\ UNCHANGED cbkCount
    /\ passReads' = [k \in RestKeys |-> 0]
    /\ passGets' = [k \in RestKeys |-> 0]
    /\ startClean' = {}
    /\ UNCHANGED <<auxRest, mode, now, storeVars, hooks, inst, passes>>

\* Promise.all(...).then(go).catch(e => { result.error = e; cbk(result); })
Abort ==
    /\ mode = "loop"
    /\ pc = "abort"
    /\ ~Stamping
    /\ \E i \in promises :
         /\ fetches[i].out.t = "envError"
         /\ result' = ("error" :> PropError(fetches[i].out)) @@ result
    /\ cbkCount' = cbkCount + 1
    /\ pc' = "done"
    /\ notified' = <<>>
    /\ UNCHANGED <<auxVars, mode, now, storeVars, compVars, passVars, match>>

RestReads ==
    \/ \E c \in Comps, p \in Paths, q \in ParamsIn, nt \in NoThrows, ttl \in TTLs :
          UseRest(c, p, q, nt, ttl)
    \/ \E c \in Comps, p \in Paths, q \in ParamsIn, ttl \in TTLs :
          UseRestRefresh(c, p, q, ttl)
VarReads ==
    \/ \E c \in Comps, n \in PlainNames, d \in PlainVals : UseVar(c, n, d)
    \/ \E n \in PlainNames, d \in PlainVals : UseVarSetter(n, d)
Transport ==
    \/ \E i \in 1..MaxFetches : \E out \in Outcomes(i) : Settle(i, out)
    \/ \E i \in 1..MaxFetches : Stamp(i)

\* the REST cache in the browser
Next ==
    \/ RestReads
    \/ BeginPass
    \/ EndPass
    \/ \E k \in RestKeys, a \in RefreshArgs : ManualRefresh(k, a)
    \/ ResetAll
    \/ Tick
    \/ Transport
Spec == Init /\ [][Next]_vars

\* one request served by either renderer
NextServer ==
    \/ \E m \in MatchResults : Query(m)
    \/ Go
    \/ RestReads
    \/ VarReads
    \/ \E c \in Comps : ComponentThrows(c)
    \/ EndPass
    \/ Tick
    \/ Transport
    \/ Abort
InitServer == InitRouter \/ InitLoop
SpecServer == InitServer /\ [][NextServer]_vars

\* ---------------------- the promise-driven renderer serving a chained page
\* The page reads the keys of Chain in order, each through a hook of its
\* own, and reads a key only when the key before it returned data.
Chain == << [p |-> <<"a">>, q |-> [t |-> "undefined", s |-> <<>>]],
            [p |-> <<"a">>, q |-> [t |-> "string", s |-> <<"?">>]] >>
ChainComp(j) == IF j = 1 THEN "c1" ELSE "c2"
\* the hook before position j returned data (not null, not false)
Revealed(j) ==
    \/ j = 1
    \/ /\ lastRet[ChainComp(j - 1)].kind = "ret"
       /\ ~IsNullish(lastRet[ChainComp(j - 1)].val)
       /\ lastRet[ChainComp(j - 1)].val # JSFalse

InitChain ==
    /\ mode = "loop"
    /\ pc = "go"
    /\ ctx = <<>>
    /\ boot = NoBoot
    /\ InitFields
    /\ pre = NoPre
    /\ treeTTL \in TTLs

\* the next hook of the chained page renders
ChainRead ==
    /\ mode = "loop"
    /\ LET j == PassReadCount + 1
       IN  /\ j <= Len(Chain)
           /\ Revealed(j)
           /\ UseRestWithin(Len(Chain), MaxChainFetches, ChainComp(j),
                            Chain[j].p, Chain[j].q, JSTrue, treeTTL)

\* renderToString of the chained page returns
ChainEndPass ==
    /\ PassReadCount >= 1
    /\ PassReadCount = Len(Chain) \/ ~Revealed(PassReadCount + 1)
    /\ EndPass

NextChain ==
    \/ GoWithin(MaxChainPasses)
    \/ ChainRead
    \/ ChainEndPass
    \/ Tick
    \/ \E i \in 1..MaxChainFetches : \E out \in Outcomes(i) : Settle(i, out)
    \/ \E i \in 1..MaxChainFetches : Stamp(i)
    \/ Abort
SpecChain == InitChain /\ [][NextChain]_vars

\* ------------------------------------- two components sharing variables
WriteVals == { Num("2"), Null }

\* application code calls the setter that useVar returned for name
SetVar(name, newVal) ==
    /\ mode = "client"
    /\ pc = "idle"
    /\ name \in DOMAIN ctx
    /\ ctx' = SetterCtx(ctx, name, newVal)
    /\ notified' = SetterCalls(ctx, name, newVal)
    /\ UNCHANGED <<auxVars, mode, pc, now, hasRest, ctxRest, gen, fetches,
                   hasPromises, promises, compVars, passVars, reqVars>>

\* the names the two components use: plain ones and one that hydration seeds
SharedNames == PlainNames \cup {K1}

NextVars ==
    \/ BeginPass
    \/ \E c \in AllComps, n \in SharedNames, d \in PlainVals : UseVar(c, n, d)
    \/ EndPass
    \/ \E n \in SharedNames, x \in WriteVals : SetVar(n, x)
SpecVars == Init /\ [][NextVars]_vars

\* ------------------------------------ two components reading the cache
NextReset ==
    \/ BeginPass
    \/ \E c \in AllComps, q \in ParamsIn :
          UseRest(c, <<"a">>, q, JSTrue, NumUndef)
    \/ EndPass
    \/ ResetAllWithin(MaxTwoResets)
    \/ Transport
SpecReset == Init /\ [][NextReset]_vars

\* variables and cache entries used side by side by two components
NextStore ==
    \/ BeginPass
    \/ \E c \in Comps, n \in {K1, <<"x">>}, d \in PlainVals : UseVar(c, n, d)
    \/ \E d \in PlainVals : UseVarSetter(K1, d)
    \/ \E c \in Comps : UseRest(c, <<"a">>, [t |-> "undefined", s |-> <<>>], JSTrue, NumUndef)
    \/ \E c \in Comps : UseRestRefresh(c, <<"a">>, [t |-> "undefined", s |-> <<>>], NumUndef)
    \/ EndPass
    \/ SetVar(K1, Num("2"))
    \/ ResetAll
    \/ Transport
SpecStore == Init /\ [][NextStore]_vars

\* ------------------------------------------------- pre-render promises
PromiseError == Obj("promiseError")
TimeoutError == Obj("Promise timeout after 10 seconds")

\* a variant of the renderer's wait whose catch block rethrows
PreCaught_Rethrown(e) == e

\* catch (promiseError) { console.error(...) }: what leaves the wait
PreCaught(e) == Null

\* a request arrives at a renderer made with or without promises
InitRouterPre ==
    /\ mode = "router"
    /\ pc = "query"
    /\ ctx = <<>>
    /\ boot = NoBoot
    /\ InitFields
    /\ treeTTL = NumUndef
    /\ pre \in { NoPre, [NoPre EXCEPT !.all = "pending"] }

\* the browser before run(routes, promises) is called
InitRun ==
    /\ mode = "client"
    /\ pc = "start"
    /\ ctx = <<>>
    /\ boot = NoBoot
    /\ InitFields
    /\ treeTTL = NumUndef
    /\ pre \in { NoPre, [NoPre EXCEPT !.all = "pending"] }

\* Promise.all(promises) settles; nothing obliges it to
PreSettle(how) ==
    /\ pre.all = "pending"
    /\ pre' = [pre EXCEPT !.all = how]
    /\ UNCHANGED <<reqs, treeTTL, userProm, boot, effects, registry, mode, pc, now,
                   storeVars, compVars, notified, passVars, reqVars>>

\* getInitialState(): undefined, or the `initial` object of a server result
InitialStates ==
    { [typ |-> "undefined", snap |-> <<>>] } \cup
    { [typ |-> "object", snap |-> sn] : sn \in Snapshots }

\* run() in the browser: the store is seeded when init is an object; without
\* promises the application is mounted at once, with promises the mount is
\* left to the continuation of the race
Run(init) ==
    /\ mode = "client"
    /\ pc = "start"
    /\ ctx' = IF init.typ = "object" THEN IdleCtx(init.snap) ELSE <<>>
    /\ IF pre.all = "none"
       THEN /\ pc' = "idle"
            /\ boot' = [typ |-> init.typ, snap |-> init.snap,
                        mounts |-> <<MountKind(init.typ)>>]
       ELSE /\ pc' = "boot"
            /\ boot' = [typ |-> init.typ, snap |-> init.snap, mounts |-> <<>>]
    /\ UNCHANGED <<reqs, treeTTL, pre, userProm, effects, registry, mode, now, hasRest,
                   ctxRest, gen, fetches, hasPromises, promises, compVars,
                   notified, passVars, reqVars>>

\* Promise.race([Promise.all(promises), timer]) settles and its continuation
\* runs: how = "fulfilled" or "rejected" by the promises, "timeout" by the
\* timer while they are pending
PreWaitOver(how) ==
    /\ pc \in {"prewait", "boot"}
    /\ IF how = "timeout" THEN pre.all = "pending" ELSE pre.all = how
    /\ pre' = [pre EXCEPT !.wait = how]
    /\ IF mode = "client"
       THEN /\ pc' = "idle"
            /\ boot' = [boot EXCEPT
                          !.mounts = Append(@, MountKind(boot.typ))]
            /\ UNCHANGED <<compVars, passVars, reqVars>>
       ELSE /\ UNCHANGED boot
            /\ LET e == CASE how = "fulfilled" -> Null
                          [] how = "rejected" -> PreCaught(PromiseError)
                          [] OTHER -> PreCaught(TimeoutError)
               IN  IF e = Null
                   THEN /\ pc' = "render"
                        /\ StartPass
                        /\ FreshComps
                        /\ UNCHANGED reqVars
                   ELSE /\ pc' = "done"
                        /\ result' = ("error" :> e) @@ result
                        /\ cbkCount' = cbkCount + 1
                        /\ UNCHANGED <<compVars, passVars, match>>
    /\ notified' = <<>>
    /\ UNCHANGED <<reqs, treeTTL, userProm, effects, registry, mode, now, ctx, hasRest,
                   ctxRest, gen, fetches, hasPromises, promises>>

\* a component calls the usePromise(prom) of ssr.js with a promise that has
\* not settled: the body is `return;`, the store is not touched
UsePromise ==
    /\ mode # "loop"
    /\ pc = "render"
    /\ userProm = "none"
    /\ userProm' = "pending"
    /\ notified' = <<>>
    /\ UNCHANGED <<reqs, treeTTL, pre, boot, effects, registry, mode, pc, now, storeVars,
                   compVars, passVars, reqVars>>

\* the promise handed to usePromise settles
UserSettle ==
    /\ userProm = "pending"
    /\ userProm' = "settled"
    /\ notified' = <<>>
    /\ UNCHANGED <<reqs, treeTTL, pre, boot, effects, registry, mode, pc, now, storeVars,
                   compVars, passVars, reqVars>>

NextBoot ==
    \/ \E m \in MatchResults : Query(m)
    \/ \E how \in {"fulfilled", "rejected"} : PreSettle(how)
    \/ \E init \in InitialStates : Run(init)
    \/ PreWaitOver("fulfilled")
    \/ PreWaitOver("rejected")
    \/ PreWaitOver("timeout")
    \/ BeginPass
    \/ VarReads
    \/ \E c \in Comps : ComponentThrows(c)
    \/ UsePromise
    \/ UserSettle
    \/ EndPass
InitBoot == InitRouterPre \/ InitRun
SpecBoot == InitBoot /\ [][NextBoot]_vars
\* the event loop runs every timer that is due and every continuation of a
\* settled promise
FairBoot ==
    /\ WF_vars(PreWaitOver("fulfilled"))
    /\ WF_vars(PreWaitOver("rejected"))
    /\ WF_vars(PreWaitOver("timeout"))
SpecBootFair == SpecBoot /\ FairBoot

\* ------------------------------------------- two requests of one renderer
\* a variant in which every invocation uses the store of the first one
RequestStore_Shared(rs, r) == rs["r1"].store
\* the store handed to the components of request r: `let varCtx = {}` of its
\* own invocation, given to Context.Provider
RequestStore(rs, r) == rs[r].store
\* each request renders its own instance of the page
CompOf(r) == IF r = "r1" THEN "c1" ELSE "c2"

\* the two requests start from nothing
InitRequests ==
    /\ mode = "requests"
    /\ pc = "idle"
    /\ ctx = <<>>
    /\ boot = NoBoot
    /\ InitStore

\* the renderer function is invoked for request r
IsoStart(r) ==
    /\ mode = "requests"
    /\ reqs[r].phase = "new"
    /\ reqs' = [reqs EXCEPT ![r].phase = "render", ![r].store = <<>>]
    /\ notified' = <<>>
    /\ UNCHANGED <<mode, pc, now, storeVars, compVars, passVars, reqVars,
                   treeTTL, pre, userProm, boot, effects, registry>>

\* the page of request r calls useVar(name, defaultValue)
IsoUseVar(r, name, defaultValue) ==
    /\ mode = "requests"
    /\ reqs[r].phase = "render"
    /\ LET st == useVar(RequestStore(reqs, r), CompOf(r), name, defaultValue)
       IN  /\ reqs' = [reqs EXCEPT
                         ![r].store = st,
                         ![r].own = IF name \in DOMAIN @ THEN @
                                    ELSE @ @@ (name :> defaultValue)]
           /\ lastRet' = [lastRet EXCEPT ![CompOf(r)] =
                             [kind |-> "ret", val |-> st[name].value,
                              name |-> name]]
    /\ hooks' = [hooks EXCEPT ![CompOf(r)] = name]
    /\ notified' = <<>>
    /\ UNCHANGED <<mode, pc, now, storeVars, inst, passVars, reqVars,
                   treeTTL, pre, userProm, boot, effects, registry>>

\* the page of request r calls the setter of a variable it has used
IsoSetVar(r, name, newVal) ==
    /\ mode = "requests"
    /\ reqs[r].phase = "render"
    /\ name \in DOMAIN RequestStore(reqs, r)
    /\ name \in DOMAIN reqs[r].own
    /\ reqs' = [reqs EXCEPT
                  ![r].store = SetterCtx(RequestStore(reqs, r), name, newVal),
                  ![r].own = [@ EXCEPT ![name] = newVal]]
    /\ notified' = SetterCalls(RequestStore(reqs, r), name, newVal)
    /\ UNCHANGED <<mode, pc, now, storeVars, compVars, passVars, reqVars,
                   treeTTL, pre, userProm, boot, effects, registry>>

\* request r exports its variables and hands its result to the callback
IsoFinish(r) ==
    /\ mode = "requests"
    /\ reqs[r].phase = "render"
    /\ reqs' = [reqs EXCEPT
                  ![r].phase = "done",
                  ![r].snap = Exported(RequestStore(reqs, r), FALSE, FALSE)]
    /\ notified' = <<>>
    /\ UNCHANGED <<mode, pc, now, storeVars, compVars, passVars, reqVars,
                   treeTTL, pre, userProm, boot, effects, registry>>

NextRequests ==
    \/ \E r \in Requests : IsoStart(r)
    \/ \E r \in Requests, n \in PlainNames, d \in PlainVals : IsoUseVar(r, n, d)
    \/ \E r \in Requests, n \in PlainNames, x \in PlainVals : IsoSetVar(r, n, x)
    \/ \E r \in Requests : IsoFinish(r)
SpecRequests == InitRequests /\ [][NextRequests]_vars

\* ------------------------------- a request rendered, then the page booted
\* the browser loads the page that the callback's result was written into:
\* a new process with its own empty store, whose getInitialState() is the
\* result's `initial`
Ship ==
    /\ mode = "router"
    /\ pc = "done"
    /\ "app" \in DOMAIN result
    /\ mode' = "client"
    /\ pc' = "start"
    /\ ctx' = <<>>
    /\ hasRest' = FALSE
    /\ ctxRest' = <<>>
    /\ fetches' = <<>>
    /\ hooks' = [c \in AllComps |-> NoKey]
    /\ inst' = [c \in AllComps |-> 0]
    /\ lastRet' = [c \in AllComps |-> NoRet]
    /\ passes' = 0
    /\ notified' = <<>>
    /\ UNCHANGED <<auxVars, now, gen, hasPromises, promises, passReads,
                   passGets, startClean, reqVars>>

NextTrip ==
    \/ \E m \in MatchResults : Query(m)
    \/ \E c \in Comps, n \in SharedNames, d \in PlainVals : UseVar(c, n, d)
    \/ \E c \in Comps, nt \in NoThrows :
          UseRest(c, <<"a">>, [t |-> "string", s |-> <<"?">>], nt, NumUndef)
    \/ \E c \in Comps : ComponentThrows(c)
    \/ EndPass
    \/ Ship
    \/ Run([typ |-> "object", snap |-> result["initial"]])
    \/ BeginPass
SpecTrip == InitRouter /\ [][NextTrip]_vars

\* --------------------------------------------- components that unmount
\* React unmounts component comp and runs the cleanup of its effect:
\* ctx[varName].subscribers.delete(setV), with the varName of the render
\* that created the effect; a later mount has a new useState, so a new setV
Unmount(comp) ==
    /\ mode = "client"
    /\ pc = "idle"
    /\ effects[comp] # NoKey
    /\ inst[comp] < MaxMounts
    /\ ctx' = [ctx EXCEPT ![effects[comp]].subscribers = @ \ {SetV(comp)}]
    /\ hooks' = [hooks EXCEPT ![comp] = NoKey]
    /\ effects' = [effects EXCEPT ![comp] = NoKey]
    /\ inst' = [inst EXCEPT ![comp] = @ + 1]
    /\ notified' = <<>>
    /\ UNCHANGED <<auxRest, mode, pc, now, hasRest, ctxRest, gen, fetches,
                   hasPromises, promises, lastRet, passVars, reqVars>>

NextMount ==
    \/ BeginPass
    \/ \E c \in AllComps, n \in {<<"x">>, K1} : UseVar(c, n, Num("1"))
    \/ EndPass
    \/ \E n \in {<<"x">>, K1} : SetVar(n, Num("2"))
    \/ \E c \in Transient : Unmount(c)
SpecMount == Init /\ [][NextMount]_vars

\* ------------------------------------- GETs of one key that overlap
\* the cache in the browser with every GET remembered after its handlers ran
NextRace ==
    \/ BeginPass
    \/ \E c \in Comps, q \in ParamsIn : UseRest(c, <<"a">>, q, JSTrue, NumUndef)
    \/ EndPass
    \/ \E k \in RestKeys, a \in {Undefined, JSTrue} : ManualRefresh(k, a)
    \/ \E i \in 1..MaxFetches : \E out \in Outcomes(i) : Settle(i, out)
    \/ \E i \in 1..MaxFetches : StampWith(i, FALSE)
SpecRace == Init /\ [][NextRace]_vars

\* ------------------------------------------- paths that contain a "?"
\* (path, params) arguments of useRest: absent params, the empty string, and
\* a path and a params string that contain the separator
KeyPairs ==
    { [p |-> <<"a">>, q |-> [t |-> "undefined", s |-> <<>>]],
      [p |-> <<"a">>, q |-> [t |-> "string", s |-> <<>>]],
      [p |-> <<"a">>, q |-> [t |-> "string", s |-> <<"?">>]],
      [p |-> <<"a", "?">>, q |-> [t |-> "undefined", s |-> <<>>]] }

NextKeys ==
    \/ BeginPass
    \/ \E c \in Comps, a \in KeyPairs : UseRest(c, a.p, a.q, JSTrue, NumUndef)
    \/ EndPass
    \/ Transport
SpecKeys == Init /\ [][NextKeys]_vars

\* ------------------- the global-registry cache (registerGet, getInitial)
\* everything but the registry
storeSide == <<reqs, treeTTL, pre, userProm, boot, effects, mode, pc, now,
               storeVars, compVars, notified, passVars, reqVars>>

\* paramsKey = "(null)", or the params string when `if (params)` holds
ParamsKey(params) == IF RTruthy(params) THEN params.s ELSE "(null)"

\* what each component passes to useRest(path, params)
RegistryArgs ==
    [c \in AllComps |->
        IF c = "c1" THEN [path |-> "a", params |-> RUndefined]
        ELSE [path |-> "a", params |-> RStr("q")]]

\* the return statement of useRest, for the component state v
RegistryProjection(v) ==
    IF RNullish(v) THEN [kind |-> "ret", val |-> RNull]
    ELSE IF RTruthy(Prop(v, "error"))
         THEN [kind |-> "throw", val |-> Prop(v, "error")]
         ELSE [kind |-> "ret", val |-> Prop(v, "value")]

\* a component renders with the registry's useRest(path, params):
\* registerGet(path, params, setV), runRest for a new entry, and the return
RegistryUseRest(comp) ==
    /\ mode = "registry"
    /\ LET path == RegistryArgs[comp].path
           params == RegistryArgs[comp].params
           pk   == ParamsKey(params)
           tab1 == IF path \in DOMAIN registry.tab THEN registry.tab
                   ELSE registry.tab @@ (path :> <<>>)
           v    == registry.view[comp].v
       IN  IF pk \in DOMAIN tab1[path]
           THEN LET rd == tab1[path][pk]
                IN  registry' =
                      [registry EXCEPT
                         !.defined = TRUE,
                         !.tab = [tab1 EXCEPT ![path][pk].cb = @ \cup {comp}],
                         !.view[comp] =
                            [v |-> IF comp \in rd.cb THEN v ELSE rd.res,
                             ret |-> RegistryProjection(v)]]
           ELSE LET rd == [path |-> path, params |-> params, paramsKey |-> pk,
                           cb |-> {comp}, res |-> RNull, inflight |-> 1]
                IN  registry' =
                      [registry EXCEPT
                         !.defined = TRUE,
                         !.tab = [tab1 EXCEPT ![path] = @ @@ (pk :> rd)],
                         !.gets = @ + 1,
                         !.view[comp] =
                            [v |-> v, ret |-> RegistryProjection(v)]]
    /\ UNCHANGED storeSide

\* runRest: the GET of restData settles; restData.res = {error, value} and
\* restData.cb.forEach((v) => v(restData.res))
RegistrySettle(path, pk, out) ==
    /\ mode = "registry"
    /\ path \in DOMAIN registry.tab
    /\ pk \in DOMAIN registry.tab[path]
    /\ registry.tab[path][pk].inflight > 0
    /\ registry' =
         [registry EXCEPT
            !.tab[path][pk].res = out,
            !.tab[path][pk].inflight = @ - 1,
            !.view = [c \in AllComps |->
                        IF c \in registry.tab[path][pk].cb
                        THEN [@[c] EXCEPT !.v = out] ELSE @[c]]]
    /\ UNCHANGED storeSide

\* setInitial(data) on the table tab; `res: data[path]` stores the whole
\* per-path object as the entry's result
setInitial(tab, data) ==
    [p \in DOMAIN tab \cup DOMAIN data |->
        IF p \notin DOMAIN data THEN tab[p]
        ELSE [k \in DOMAIN data[p] |->
                [path |-> p,
                 params |-> IF k # "(null)" THEN RStr(k) ELSE RUndefined,
                 paramsKey |-> k, cb |-> {}, res |-> RObj(data[p]),
                 inflight |-> 0]]
             @@ (IF p \in DOMAIN tab THEN tab[p] ELSE <<>>)]

\* the server calls getInitial() to ship the state with the page:
\* init[path][restParamKey] = restData.res for the entries whose res is not
\* null
getInitial ==
    /\ mode = "registry"
    /\ registry.side = "server"
    /\ registry' =
         [registry EXCEPT
            !.hasInit = TRUE,
            !.init =
               IF ~registry.defined THEN <<>>
               ELSE [p \in DOMAIN registry.tab |->
                       [k \in { k \in DOMAIN registry.tab[p] :
                                   ~RNullish(registry.tab[p][k].res) }
                           |-> registry.tab[p][k].res]]]
    /\ UNCHANGED storeSide

\* the page is loaded in the browser (a new global, components not yet
\* rendered) and calls setInitial(data) with the shipped data
SetInitial ==
    /\ mode = "registry"
    /\ registry.side = "server"
    /\ registry.hasInit
    /\ registry' = [NoRegistry EXCEPT
                      !.defined = TRUE,
                      !.tab = setInitial(<<>>, registry.init),
                      !.side = "client",
                      !.hasInit = TRUE,
                      !.init = registry.init]
    /\ UNCHANGED storeSide

InitRegistry ==
    /\ mode = "registry"
    /\ pc = "idle"
    /\ ctx = <<>>
    /\ boot = NoBoot
    /\ InitStore
NextRegistry ==
    \/ \E c \in AllComps : RegistryUseRest(c)
    \* the transport answers with a response, or with an error object
    \/ \E p \in {"a"}, k \in {"(null)", "q"},
          out \in { ResValue([kind |-> "response", s |-> "r", props |-> <<>>]),
                    ResError([kind |-> "error", s |-> "e", props |-> <<>>]) } :
          RegistrySettle(p, k, out)
    \/ getInitial
    \/ SetInitial
SpecRegistry == InitRegistry /\ [][NextRegistry]_vars

\* ================================================================ properties
KeyOf(p, q) == RestKey(p, CanonParams(q))
HasEntry(k) == hasRest /\ k \in DOMAIN ctxRest
Pending(k) == { i \in 1..Len(fetches) :
                  fetches[i].st = "pending" /\ fetches[i].key = k }

\* C1: in one render pass, the reads (useRest and useRestRefresh, any mix) of
\* a key that began the pass with no cache entry and a null value cause
\* exactly one transport GET for that key.
C1_OneGetPerPass ==
    \A k \in RestKeys :
        (passReads[k] >= 1 /\ k \in startClean) => passGets[k] = 1
\* two reads of such a key have happened in the pass, and one GET
C1_Witness ==
    \E k \in RestKeys :
        /\ pc = "render"
        /\ k \in startClean
        /\ passReads[k] = 2
        /\ passGets[k] = 1
        /\ Cardinality(Pending(k)) = 1

\* C2: no key of the result's `initial` begins with "@".
C2_NoReservedExport ==
    \A n \in DOMAIN result["initial"] : CharAt0(n) # "@"
\* a result was finalized from a store holding "@rest", a user variable
\* named "@x" and at least one exported variable
C2_Witness ==
    /\ cbkCount = 1
    /\ "app" \in DOMAIN result
    /\ hasRest
    /\ <<"@", "x">> \in DOMAIN ctx
    /\ DOMAIN result["initial"] # {}

\* C3: on the client, a useRest read of a key that the snapshot seeded with a
\* resolved non-null envelope, and that has no cache entry yet, returns the
\* seeded value and issues no transport call.
C3_SeededRead ==
    [][ (passReads' # passReads) =>
        \A c \in Comps, p \in Paths, q \in ParamsIn, nt \in NoThrows,
           ttl \in TTLs :
          LET k == KeyOf(p, q)
              seeded == /\ mode = "client"
                        /\ k \in DOMAIN ctx
                        /\ ctx[k].value.t = "envValue"
                        /\ ~IsNullish(PropValue(ctx[k].value))
                        /\ ~HasEntry(k)
              served == /\ lastRet'[c] = [kind |-> "ret",
                                          val |-> PropValue(ctx[k].value),
                                          name |-> k]
                        /\ fetches' = fetches
          IN  (seeded /\ ~served) => ~UseRest(c, p, q, nt, ttl) ]_vars
\* the seeded key was read before any GET or reset, and its value returned
C3_Witness ==
    /\ mode = "client"
    /\ pc = "render"
    /\ gen = 0
    /\ fetches = <<>>
    /\ HasEntry(K1)
    /\ passReads[K1] >= 1
    /\ lastRet["c1"] = [kind |-> "ret", val |-> Obj("seed"), name |-> K1]

\* a result with markup and no error was handed to the callback
Finalized ==
    /\ cbkCount > 0
    /\ "app" \in DOMAIN result
    /\ "error" \notin DOMAIN result
    /\ "redirect" \notin DOMAIN result

\* C4: when the renderer finalizes, no exported REST variable is still null
\* while the fetch for it is pending: the renderer has waited for the fetches
\* its passes started and rendered again.
C4_NoPendingExport ==
    Finalized =>
        \A i \in 1..Len(fetches) :
            (fetches[i].st = "pending" /\ fetches[i].key \in DOMAIN result["initial"])
                => ~IsNullish(result["initial"][fetches[i].key])

\* C5: a registered GET that rejects does not abort the render loop: the
\* request does not end with an error result on its account.
C5_RejectionNotFatal ==
    (mode = "loop" /\ \E i \in 1..Len(fetches) :
                        /\ fetches[i].reg
                        /\ fetches[i].st \in {"settled", "done"}
                        /\ fetches[i].out.t = "envError")
        => "error" \notin DOMAIN result

\* C6: the settlement of a GET issued before a resetAll() changes no value
\* that readers of the new namespace obtain.
C6_LateSettlementHarmless ==
    [][ \A i \in 1..MaxFetches : \A out \in Outcomes(i) :
          (i <= Len(fetches) /\ fetches[i].gen < gen /\ Settle(i, out))
              => ctx' = ctx ]_vars

\* C7 as stated: under every interleaving of reads, TTL expiries, manual
\* refresh() calls, resetAll() and settlements, at most one GET per key is
\* outstanding.
C7_OneOutstandingPerKey ==
    \A k \in RestKeys : Cardinality(Pending(k)) <= 1
\* C7: as long as every GET was started by a hook read (none by a manual
\* refresh()), at most one GET is outstanding per cache entry, that is per
\* key and namespace.
C7_OneOutstandingPerEntry ==
    (\A i \in 1..Len(fetches) : fetches[i].auto) =>
        \A k \in RestKeys : \A g \in 0..gen :
            Cardinality({ i \in Pending(k) : fetches[i].gen = g }) <= 1
\* after a resetAll() the GET of the detached entry and the GET of the new
\* entry of the same key are both outstanding, both started by reads
C7_Witness ==
    \E k \in RestKeys : \E i, j \in Pending(k) :
        /\ fetches[i].gen < fetches[j].gen
        /\ fetches[i].auto /\ fetches[j].auto

\* a REST hook reads key (p, q) with TTL ttl
ReadStep(c, p, q, nt, ttl) ==
    UseRest(c, p, q, nt, ttl) \/ UseRestRefresh(c, p, q, ttl)
\* the TTL rule for the TTLs in T: a read of a stamped, non-null entry
\* younger than its TTL changes nothing and starts no GET; older than its TTL
\* it starts one GET and unstamps the entry; a read of an unstamped entry
\* starts none; a read without TTL of a non-null value starts none
TTLRule(T) ==
    (passReads' # passReads) =>
    \A c \in Comps, p \in Paths, q \in ParamsIn, nt \in NoThrows, ttl \in T :
        LET k == KeyOf(p, q)
            nonNull == k \in DOMAIN ctx /\ ~IsNullish(ctx[k].value)
            rule ==
              /\ (HasEntry(k) /\ ctxRest[k].time.def /\ nonNull /\ ttl.def) =>
                    /\ (now - ctxRest[k].time.n < ttl.n) =>
                          /\ fetches' = fetches
                          /\ ctx'[k].value = ctx[k].value
                    /\ (now - ctxRest[k].time.n > ttl.n) =>
                          /\ Len(fetches') = Len(fetches) + 1
                          /\ fetches'[Len(fetches')].key = k
                          /\ ~ctxRest'[k].time.def
              /\ (HasEntry(k) /\ ~ctxRest[k].time.def) => fetches' = fetches
              /\ (nonNull /\ ~ttl.def) => fetches' = fetches
        IN  ~rule => ~ReadStep(c, p, q, nt, ttl)

\* C8 as stated: the TTL rule for every supplied TTL.
C8_EveryTTL == [][ TTLRule(TTLs) ]_vars
\* C8: the TTL rule for every supplied TTL greater than zero (and for reads
\* that supply none).
C8_PositiveTTL == [][ TTLRule({ ttl \in TTLs : ttl.def => ttl.n > 0 }) ]_vars
\* a read found its entry older than the TTL and started the one GET
C8_Witness ==
    \E k \in RestKeys :
        /\ pc = "render"
        /\ k \notin startClean
        /\ passReads[k] >= 1
        /\ passGets[k] = 1
        /\ HasEntry(k) /\ ~ctxRest[k].time.def
        /\ now >= 3

\* C9: useRest returns null for a null envelope, the value of a {value}
\* envelope, and for an {error: e} envelope throws e, or returns false when
\* noThrow was passed, whatever the rejection reason e.
C9_Projection ==
    [][ (passReads' # passReads) =>
        \A c \in Comps, p \in Paths, q \in ParamsIn, nt \in NoThrows,
           ttl \in TTLs :
          LET k == KeyOf(p, q)
              v == IF k \in DOMAIN ctx THEN ctx[k].value ELSE Null
              expected ==
                  CASE v.t = "envValue" -> [kind |-> "ret", val |-> PropValue(v)]
                    [] v.t = "envError" ->
                         IF nt = JSTrue THEN [kind |-> "ret", val |-> JSFalse]
                         ELSE [kind |-> "throw", val |-> PropError(v)]
                    [] OTHER -> [kind |-> "ret", val |-> Null]
              projected ==
                  lastRet'[c] = [kind |-> expected.kind, val |-> expected.val,
                                 name |-> k]
          IN  ~projected => ~UseRest(c, p, q, nt, ttl) ]_vars

\* the request ended as a redirect: no markup, no variables, no fetch
RedirectResult ==
    /\ pc = "done"
    /\ cbkCount = 1
    /\ "redirect" \in DOMAIN result /\ result["redirect"] = match.location
    /\ "statusCode" \in DOMAIN result /\ result["statusCode"] = match.status
    /\ "app" \notin DOMAIN result
    /\ "error" \notin DOMAIN result
    /\ DOMAIN result["initial"] = {}
    /\ fetches = <<>>
    /\ passes = 0

\* C10 as stated: a query result that is a response with a 3xx status and a
\* Location ends the request as a redirect.
C10_Any3xx ==
    (match.kind = "response" /\ match.status \in 300..399
        /\ match.location # "") => RedirectResult
\* C10: a query result that is a response with status 301, 302, 303, 307 or
\* 308 and a Location ends the request as a redirect.
C10_RedirectStatus ==
    (match.kind = "response" /\ match.status \in {301, 302, 303, 307, 308}
        /\ match.location # "") => RedirectResult
\* the query answered 308 and the request ended as a redirect to /about
C10_Witness ==
    /\ match.kind = "response"
    /\ match.status = 308
    /\ pc = "done"
    /\ "redirect" \in DOMAIN result /\ result["redirect"] = "/about"

\* an exception was raised while the output of the request was produced
ExceptionRaised ==
    /\ mode # "client"
    /\ \/ pc = "crashed"
       \/ \E c \in Comps : lastRet[c].kind = "throw"
       \/ ("error" \in DOMAIN result /\ result["error"] = HelmetError)

\* C11: when an exception is raised while the output of a request is
\* produced (rendering or metadata extraction, in any pass), the callback
\* receives a result with the error and without markup.
C11_ErrorWithoutMarkup ==
    ExceptionRaised =>
        /\ cbkCount = 1
        /\ "error" \in DOMAIN result
        /\ "app" \notin DOMAIN result

\* C12: the renderer invokes the callback exactly once per request: never
\* twice, and once the request is over it has been invoked.
C12_CallbackOnce ==
    mode # "client" =>
        /\ cbkCount <= 1
        /\ (pc \in {"done", "crashed"}) => cbkCount = 1
        /\ (cbkCount = 1) => pc = "done"

\* C14: on the server a fetch started by a hook read is registered with the
\* barrier of its pass, and the renderer does not finalize while it is
\* pending.
C14_AutoRegistered ==
    mode # "client" =>
        \A i \in 1..Len(fetches) :
            (fetches[i].auto /\ fetches[i].st = "pending")
                => (fetches[i].reg /\ ~Finalized)

\* the public part of what the components of a request wrote
PublicOf(f) == [n \in { m \in DOMAIN f : CharAt0(m) # "@" } |-> f[n]]

WithinPasses(n) ==
    /\ passes <= n
    /\ (pc = "await") =>
          \E i \in promises : fetches[i].st = "pending"

\* C15 as stated: for a chain of depth D the render loop runs at most D+1
\* passes, whatever TTL the reads pass.
C15_AnyTTL == WithinPasses(Len(Chain) + 1)
\* the bound of C15 restricted to reads that pass no TTL (or a TTL of 0)
C15_NoTTL == ~TruthyNum(treeTTL) => WithinPasses(Len(Chain) + 1)
\* without TTL the callback was invoked with markup after D+1 passes, each
\* key of the chain having been fetched once
C15_Witness ==
    /\ ~TruthyNum(treeTTL)
    /\ passes = Len(Chain) + 1
    /\ Finalized
    /\ Len(fetches) = Len(Chain)

\* the wait for the pre-render promises left no trace in the result
WaitUnreported ==
    /\ (pc = "prewait") => cbkCount = 0
    /\ "error" \in DOMAIN result =>
          result["error"] \notin {PromiseError, TimeoutError}

\* C16: with pre-render promises the server's render pass and the client's
\* mount eventually take place, also when a promise never settles or rejects,
\* and neither the rejection nor the timeout becomes the request's error.
C16_NeverBlocked ==
    /\ []WaitUnreported
    /\ (pc = "prewait") ~> (pc = "render")
    /\ (pc = "boot") ~> (pc = "idle")
\* the promises never settled, the timer ended the wait, and the request
\* was answered with markup
C16_Witness ==
    /\ mode = "router"
    /\ pre = [all |-> "pending", wait |-> "timeout"]
    /\ Finalized

\* the calls of callback cb among the calls made by the last setter
CallsOf(cb) == { i \in DOMAIN notified : notified[i].cb = cb }
Callbacks == { SetV(c) : c \in AllComps }

\* C17: the setter of n called with x stores x in n and calls every callback
\* in n's subscriber set exactly once with {key: n, newVal: x}, and no
\* callback that is subscribed only to other variables.
C17_SetterNotifies ==
    [][\A n \in SharedNames, x \in WriteVals :
         SetVar(n, x) =>
           /\ ctx'[n].value = x
           /\ \A i \in DOMAIN notified' :
                 notified'[i].key = n /\ notified'[i].newVal = x
           /\ \A cb \in Callbacks :
                 Cardinality(CallsOf(cb)') =
                   IF cb \in ctx[n].subscribers THEN 1 ELSE 0]_vars
\* a setter has just called one subscriber while another variable has a
\* subscriber that was not called
C17_Witness ==
    /\ Len(notified) = 1
    /\ ctx[notified[1].key].value = notified[1].newVal
    /\ \E m \in DOMAIN ctx :
          /\ m # notified[1].key
          /\ ctx[m].subscribers # {}
          /\ notified[1].cb \notin ctx[m].subscribers

\* C18: a mounted component's callback is in the subscriber set of the
\* variable its hook read last and of no other, right after the render that
\* switched variables, so a write to the old variable does not call it and a
\* write to the new one does.
C18_Rebind ==
    /\ [](\A c \in AllComps : \A n \in DOMAIN ctx :
            hooks[c] # NoKey =>
              (SetV(c) \in ctx[n].subscribers <=> n = hooks[c]))
    /\ [][\A n \in SharedNames, x \in WriteVals :
            SetVar(n, x) =>
              \A c \in AllComps :
                (CallsOf(SetV(c))' # {}) <=> (hooks[c] = n)]_vars
\* the old variable, which both hooks have left, was written and nobody was
\* called, while the hooks are subscribed to the variable they read now
C18_Witness ==
    \E a \in PlainNames \cap DOMAIN ctx :
        /\ ctx[a].subscribers = {}
        /\ ctx[a].value = Num("2")
        /\ notified = <<>>
        /\ pc = "idle"
        /\ hooks["c1"] \in DOMAIN ctx
        /\ hooks["c1"] # a
        /\ SetV("c1") \in ctx[hooks["c1"]].subscribers

\* refresh(value) of the entry of k issued one GET for the entry's path and
\* params and returned its promise
OneGetFor(k, value) ==
    /\ Len(fetches') = Len(fetches) + 1
    /\ SubSeq(fetches', 1, Len(fetches)) = fetches
    /\ LET f == fetches'[Len(fetches')]
       IN  /\ f.st = "pending"
           /\ f.key = k
           /\ f.path = ctxRest[k].path
           /\ f.params = ctxRest[k].params
           /\ RestKey(f.path, f.params) = k
    /\ refresh(ctx, fetches, promises, ctxRest[k], k, value, FALSE).ret =
         Len(fetches')
\* a GET that settles in this step leaves its outcome, {value: r} or
\* {error: e}, in the backing variable
SettlementStored ==
    \A i \in 1..Len(fetches) :
        (fetches[i].st = "pending" /\ fetches'[i].st = "settled") =>
            /\ fetches'[i].out.t \in {"envValue", "envError"}
            /\ ctx'[fetches[i].key].value = fetches'[i].out
\* the pending stamp of a settled GET is written, with the time of the
\* settlement, to the entry the refresh belongs to
SettlementStamped ==
    /\ Stamping => now' = now
    /\ \A i \in 1..Len(fetches) :
        (/\ fetches[i].st = "settled"
         /\ fetches'[i].st # "settled"
         /\ HasEntry(fetches[i].key)
         /\ ctxRest[fetches[i].key].gen = fetches[i].gen) =>
            ctxRest'[fetches[i].key].time = NumOf(now)

\* C19: refresh() without a seed (no argument, or true) issues one GET for the
\* entry's path and canonical params and returns its promise; on settlement
\* the variable becomes {value: r} or {error: e} and the entry is stamped.
C19_RefreshFetches ==
    [][/\ SettlementStored
       /\ SettlementStamped
       /\ \A k \in RestKeys, a \in {Undefined, JSTrue} :
             ManualRefresh(k, a) => OneGetFor(k, a)]_vars
\* a GET issued by a manual refresh was rejected, the error is in the
\* variable and the entry carries the stamp
C19_Witness ==
    \E k \in RestKeys, i \in 1..Len(fetches) :
        /\ fetches[i] = DoneFetch(FALSE)
        /\ HasEntry(k)
        /\ ctxRest[k].time = NumOf(now)
        /\ ctx[k].value.t = "envError"
        /\ Pending(k) = {}

\* C20 as stated: refresh(x) with plain data x that is no boolean (an object,
\* a string, a number) sets the variable to {value: x} and issues no GET.
C20_SeedAnyPlainValue ==
    [][\A k \in RestKeys, x \in {Obj("seed"), Str("s"), Num("1")} :
         ManualRefresh(k, x) =>
           /\ fetches' = fetches
           /\ ctx'[k].value = EnvValue(x)]_vars

\* the GETs of key k that settle in this step
SettlingNow(k) ==
    { i \in 1..Len(fetches) :
        fetches[i].key = k /\ fetches[i].st = "pending"
                           /\ fetches'[i].st = "settled" }
\* a fetching refresh(a) of the entry of k has run in this step: without the
\* literal true the variable is null and each subscriber was called once
\* with null, with true nothing was written and nobody was called
FetchStarted(k, a) ==
    /\ Len(fetches') = Len(fetches) + 1
    /\ fetches'[Len(fetches')].st = "pending"
    /\ fetches'[Len(fetches')].key = k
    /\ IF a = JSTrue
       THEN ctx' = ctx /\ notified' = <<>>
       ELSE /\ ctx'[k].value = Null
            /\ \A i \in DOMAIN notified' :
                  notified'[i].key = k /\ notified'[i].newVal = Null
            /\ \A cb \in ctx[k].subscribers :
                  Cardinality({ i \in DOMAIN notified' :
                                  notified'[i].cb = cb }) = 1

\* C21 as stated: while a GET started by refresh(flag) with a flag other than
\* true is pending, readers observe null.
C21_NullUntilSettled ==
    \A i \in 1..Len(fetches) :
        (fetches[i].st = "pending" /\ ~fetches[i].keep) =>
            ctx[fetches[i].key].value = Null
\* C21: a fetching refresh(flag) with a flag other than true sets the variable
\* to null and notifies its subscribers in the call itself, before the GET can
\* settle, and the variable then stays null until the next write to it: a
\* settlement of a GET of the key or a seeding refresh; with true the call
\* writes nothing and notifies nobody.
C21_NullAtStart ==
    [][/\ \A k \in RestKeys, a \in {Undefined, JSTrue, Str("s"), Num("1")} :
            ManualRefresh(k, a) => FetchStarted(k, a)
       /\ \A k \in RestKeys \cap DOMAIN ctx :
            (/\ Pending(k) # {}
             /\ ctx[k].value = Null
             /\ ctx'[k].value # Null) =>
                \/ SettlingNow(k) # {}
                \/ fetches' = fetches /\ ctx'[k].value.t = "envValue"]_vars
\* a manual refresh without true has just set the variable to null and
\* called its subscriber, and its GET is pending
C21_Witness ==
    /\ notified # <<>>
    /\ notified[1].newVal = Null
    /\ ctx[notified[1].key].value = Null
    /\ \E i \in 1..Len(fetches) :
          /\ fetches[i].st = "pending"
          /\ fetches[i].key = notified[1].key
          /\ ~fetches[i].auto
          /\ ~fetches[i].keep

\* resetAll() has run in this step on a store that has a cache namespace
ResetStep == hasRest /\ gen' = gen + 1

\* C22: resetAll() replaces the cache namespace with an empty one and, for
\* each entry of the prior namespace, sets the backing variable to null and
\* calls each subscriber of that variable exactly once with null, all in one
\* step.
C22_ResetNotifiesAll ==
    [][ResetStep =>
         /\ hasRest' /\ ctxRest' = <<>>
         /\ fetches' = fetches
         /\ \A k \in DOMAIN ctxRest :
               /\ ctx'[k].value = Null
               /\ \A cb \in ctx[k].subscribers :
                     Cardinality({ i \in DOMAIN notified' :
                                     notified'[i].cb = cb }) = 1
         /\ \A i \in DOMAIN notified' :
               /\ notified'[i].key \in DOMAIN ctxRest
               /\ notified'[i].newVal = Null
               /\ notified'[i].cb \in ctx[notified'[i].key].subscribers
         /\ \A n \in DOMAIN ctx \ DOMAIN ctxRest : ctx'[n] = ctx[n]]_vars
\* resetAll() has just erased two entries and called the two components, one
\* per variable
C22_Witness ==
    /\ hasRest /\ ctxRest = <<>>
    /\ Len(notified) = 2
    /\ notified[1].key # notified[2].key
    /\ notified[1].cb # notified[2].cb
    /\ \A i \in 1..2 : ctx[notified[i].key].value = Null

\* C23: resetAll() called again on the namespace it has just emptied changes
\* neither the store nor the namespace and calls no subscriber; after one call
\* as after two, every variable that backed an entry is null and without
\* entry, and the next read of such a key issues a fetch.
C23_ResetIdempotent ==
    [][/\ ResetStep =>
            \A k \in DOMAIN ctxRest : ctx'[k].value = Null /\ ~HasEntry(k)'
       /\ (ResetStep /\ ctxRest = <<>>) =>
            /\ ctx' = ctx
            /\ ctxRest' = ctxRest
            /\ fetches' = fetches
            /\ notified' = <<>>
       /\ \A c \in AllComps, q \in ParamsIn :
            (/\ ~HasEntry(KeyOf(<<"a">>, q))
             /\ KeyOf(<<"a">>, q) \in DOMAIN ctx
             /\ ctx[KeyOf(<<"a">>, q)].value = Null
             /\ Len(fetches') # Len(fetches) + 1) =>
                ~UseRest(c, <<"a">>, q, JSTrue, NumUndef)]_vars
\* resetAll() was called twice with no read in between: the variable that
\* backed the erased entry is null and its reader was not called again
C23_Witness ==
    /\ gen = 2
    /\ fetches = <<>>
    /\ hasRest /\ ctxRest = <<>>
    /\ notified = <<>>
    /\ \E k \in RestKeys \cap DOMAIN ctx :
          ctx[k].value = Null /\ ctx[k].subscribers # {}

\* what useVar(n, d) must return and leave as the value of n
ReadValue(n, d) == IF n \in DOMAIN ctx THEN ctx[n].value ELSE d

\* C24: useVar(n, d) creates the entry with value d and returns d when n has
\* no entry; otherwise it returns the current value, ignores d and leaves the
\* value unchanged, so reads with no write in between return the same value.
C24_DefaultOnlyWhenUnseen ==
    [][\A c \in AllComps, n \in SharedNames, d \in PlainVals :
         (\/ n \notin DOMAIN ctx'
          \/ ctx'[n].value # ReadValue(n, d)
          \/ lastRet'[c].val # ReadValue(n, d)
          \/ \E m \in DOMAIN ctx \ {n} : ctx'[m].value # ctx[m].value) =>
            ~UseVar(c, n, d)]_vars
\* a component read the variable that hydration seeded and got the seeded
\* value, not its default
C24_Witness ==
    \E c \in AllComps :
        /\ lastRet[c].kind = "ret"
        /\ lastRet[c].name = K1
        /\ lastRet[c].val = EnvValue(Obj("seed"))
        /\ ctx[K1].value = EnvValue(Obj("seed"))

\* C25: once a variable has an entry, the entry stays and its setter is the
\* same function after every read (whatever default it passes), every write,
\* every cache-entry creation and resetAll().
C25_SetterStable ==
    [][\A n \in DOMAIN ctx :
         n \in DOMAIN ctx' /\ ctx'[n].setter = ctx[n].setter]_vars
\* after resetAll() the key got a new cache entry, the variable was written
\* through its setter and read again through useVar: the setter is the one
\* the entry was created with
C25_Witness ==
    /\ gen = 1
    /\ HasEntry(K1)
    /\ lastRet["c1"].name = K1
    /\ lastRet["c1"].val = Num("2")
    /\ ctx[K1].setter = 1

\* C26: useVarSetter(n, d) changes no subscriber set and no value of an
\* existing entry; all it may do is create the entry of an unseen n with
\* value d and no subscriber.
C26_SetterOnlyFrame ==
    [][\A n \in SharedNames, d \in PlainVals :
         UseVarSetter(n, d) =>
           /\ \A m \in DOMAIN ctx : m \in DOMAIN ctx' /\ ctx'[m] = ctx[m]
           /\ DOMAIN ctx' = DOMAIN ctx \cup {n}
           /\ n \notin DOMAIN ctx =>
                 ctx'[n].value = d /\ ctx'[n].subscribers = {}
           /\ hooks' = hooks]_vars
\* no component has read through useVar yet and a variable exists, created
\* by useVarSetter with the default as value and nobody subscribed
C26_Witness ==
    /\ pc = "render"
    /\ \A c \in AllComps : hooks[c] = NoKey
    /\ K1 \in DOMAIN ctx
    /\ ctx[K1].subscribers = {}
    /\ ctx[K1].value \in PlainVals

\* C27: a promise passed to usePromise during a server-side render has
\* settled when the callback is invoked with the final result.
C27_UsePromiseAwaited ==
    Finalized => userProm # "pending"

\* C28: a result of the ssr.js renderer with neither redirect nor error
\* carries app, the six metadata fields and the initial variables and no
\* statusCode; in every result redirect or statusCode comes without app.
C28_ResultShape ==
    /\ []((mode = "router" /\ cbkCount > 0) =>
          /\ ("redirect" \in DOMAIN result \/ "statusCode" \in DOMAIN result)
                => "app" \notin DOMAIN result
          /\ ("redirect" \notin DOMAIN result /\ "error" \notin DOMAIN result)
                => /\ {"app", "initial", "title", "meta", "script", "link",
                       "bodyAttributes", "htmlAttributes"}
                          \subseteq DOMAIN result
                   /\ "statusCode" \notin DOMAIN result)
    /\ [][(mode = "router" /\ cbkCount' # cbkCount
                           /\ "app" \in DOMAIN result') =>
            result'["initial"] = Exported(ctx, hasRest, hasPromises)]_vars
\* a matched route was rendered by ssr.js without exception and exported a
\* variable
C28_Witness ==
    /\ mode = "router"
    /\ Finalized
    /\ "title" \in DOMAIN result
    /\ result["initial"] # <<>>

\* no promise of the barrier is pending / was pending before this step
BatchSettled == \A i \in promises : fetches[i].st # "pending"

\* C29: in the promise-driven renderer every fetch of a pass is started and
\* registered before the await begins, pass N+1 starts only when every
\* promise registered in pass N has settled, and fin() runs only on an empty
\* barrier: never on a partly completed batch.
C29_WholeBatch ==
    /\ []((mode = "loop" /\ pc = "await") =>
            /\ promises # {}
            /\ \A i \in 1..Len(fetches) :
                  (fetches[i].auto /\ fetches[i].pass = passes) =>
                      i \in promises)
    /\ []((mode = "loop" /\ cbkCount > 0 /\ "error" \notin DOMAIN result) =>
            promises = {})
    /\ [][(mode = "loop" /\ pc = "await") =>
            /\ Len(fetches') = Len(fetches)
            /\ promises' = promises
            /\ pc' = "go" => BatchSettled']_vars
    /\ [][(mode = "loop" /\ pc' = "render" /\ pc # "render") =>
            BatchSettled]_vars
\* the second pass has started after both fetches of the first pass settled
C29_Witness ==
    /\ mode = "loop"
    /\ pc = "render"
    /\ passes = 2
    /\ Len(fetches) = 2
    /\ \A i \in 1..2 : fetches[i].reg /\ fetches[i].pass = 1
                          /\ fetches[i].st # "pending"

\* the application is mounted in this step
Mounting == Len(boot'.mounts) = Len(boot.mounts) + 1

\* C30: run() mounts the application exactly once, hydrating when
\* getInitialState() yields an object and then only with every variable of it
\* installed with its value and no subscriber, rendering afresh otherwise;
\* with pre-render promises the mount waits until they have all resolved, one
\* has rejected or the timeout has elapsed, and a later settlement does not
\* mount again.
C30_MountOnce ==
    /\ [](Len(boot.mounts) <= 1)
    /\ []((mode = "client" /\ pc \notin {"start", "boot"}) =>
            Len(boot.mounts) = 1)
    /\ [][Mounting =>
            /\ boot'.mounts =
                 <<IF boot'.typ = "object" THEN "hydrate" ELSE "render">>
            /\ ctx' = [n \in DOMAIN boot'.snap |->
                         [value |-> boot'.snap[n], subscribers |-> {},
                          setter |-> 1]]
            /\ pre.all # "none" =>
                 \/ pre.all \in {"fulfilled", "rejected"}
                 \/ pre'.wait = "timeout"]_vars
\* the timer ended the wait, the application was hydrated, the promises
\* resolved afterwards, and there is still one mount
C30_Witness ==
    /\ mode = "client"
    /\ pre = [all |-> "fulfilled", wait |-> "timeout"]
    /\ boot.typ = "object"
    /\ boot.snap # <<>>
    /\ boot.mounts = <<"hydrate">>

\* the renderer's callback is invoked with markup in this step
Finalizing == cbkCount' = cbkCount + 1 /\ "app" \in DOMAIN result'

\* C31: the `initial` of a finalized result maps exactly the names of the
\* server store that do not begin with "@" to their values at finalization,
\* and in a client store seeded from it, a read of any of those names returns
\* that value whatever default the reader passes.
C31_RoundTrip ==
    /\ [][ Finalizing =>
            /\ DOMAIN result'["initial"] =
                 { n \in DOMAIN ctx' : CharAt0(n) # "@" }
            /\ \A n \in DOMAIN result'["initial"] :
                 result'["initial"][n] = ctx'[n].value ]_vars
    /\ [][ (mode = "client" /\ lastRet' # lastRet) =>
            \A c \in Comps, n \in DOMAIN result["initial"], d \in PlainVals :
              (lastRet'[c] # [kind |-> "ret", val |-> result["initial"][n],
                              name |-> n])
                 => ~UseVar(c, n, d) ]_vars
\* the server exported "x" = 1 and a cache variable; the client read "x"
\* and got 1
C31_Witness ==
    /\ mode = "client"
    /\ pc = "render"
    /\ DOMAIN result["initial"] = { <<"x">>, RestKey(<<"a">>, <<"?">>) }
    /\ result["initial"][<<"x">>] = Num("1")
    /\ lastRet["c1"] = [kind |-> "ret", val |-> Num("1"), name |-> <<"x">>]

\* an envelope has exactly one of the fields value and error
IsEnvelope(v) == v.t \in {"envValue", "envError"}

\* C32: the variable backing a cache entry is null or an envelope with
\* exactly one of the fields value and error, whatever automatic fetches,
\* refresh(seed), refresh(flag), resetAll() and settlements have happened.
C32_NullOrEnvelope ==
    \A k \in RestKeys :
        HasEntry(k) => (k \in DOMAIN ctx /\
                        (ctx[k].value = Null \/ IsEnvelope(ctx[k].value)))
\* after a reset, an entry was seeded by refresh(seed) and a GET of the old
\* namespace left an {error} envelope in another entry's variable
C32_Witness ==
    \E k, m \in RestKeys :
        /\ gen = 1
        /\ HasEntry(k) /\ ctx[k].value = EnvValue(Obj("seed"))
        /\ HasEntry(m) /\ ctx[m].value.t = "envError"

\* the callback cb = <<component, mount>> belongs to a component instance
\* that is mounted now
Live(cb) == cb[2] = inst[cb[1]] /\ hooks[cb[1]] # NoKey

\* C33: the update callback of a component that has unmounted is in the
\* subscriber set of no variable, whichever names the component used while
\* it was mounted, and no write invokes it.
C33_UnmountUnsubscribes ==
    /\ [](\A n \in DOMAIN ctx : \A cb \in ctx[n].subscribers : Live(cb))
    /\ [][ \A i \in DOMAIN notified' : Live(notified'[i].cb) ]_vars

\* the GETs issued so far for key k
GetsOf(k) == { j \in 1..Len(fetches) : fetches[j].key = k }
\* the one started last
LastOf(S) == CHOOSE j \in S : \A m \in S : m <= j

\* C34: when two GETs for one key were in flight at the same time, the
\* variable holds, once both have settled, the outcome of the GET that was
\* started last, whichever of them settled first.  (A GET that settles while
\* a later one has already settled overlapped with it.)
C34_LastStartedWins ==
    [][ \A i \in 1..Len(fetches) :
          LET k == fetches[i].key
              overlapped == \E j \in GetsOf(k) : j > i
              allSettled == \A j \in GetsOf(k) \ {i} : fetches[j].st # "pending"
          IN  (fetches[i].st = "pending" /\ fetches'[i].st = "settled"
               /\ overlapped /\ allSettled)
                 => ctx'[k].value = fetches'[LastOf(GetsOf(k))].out ]_vars

\* C35: two reads whose paths differ, or whose canonical params differ, never
\* share a cache entry, and two reads with equal path and canonical params
\* always do (absent params and "" being the same): the entry that a read
\* uses is the one made for its own path and canonical params, and its GET
\* goes to that path with those params.
C35_KeyInjective ==
    [][ \A c \in Comps, a \in KeyPairs :
          UseRest(c, a.p, a.q, JSTrue, NumUndef) =>
            LET k == hooks'[c]
            IN  /\ ctxRest'[k].path = a.p
                /\ ctxRest'[k].params = CanonParams(a.q)
                /\ \A b \in KeyPairs :
                     (b.p = a.p /\ CanonParams(b.q) = CanonParams(a.q))
                        => KeyOf(b.p, b.q) = k ]_vars

\* C36: after resetAll() has replaced the namespace, the first read of any
\* key (one that has no entry in the new namespace) returns null and issues
\* a transport GET, also for a key whose non-null value came from the
\* hydration snapshot and that had no cache entry at the time of the reset.
C36_FirstReadAfterReset ==
    [][ (gen >= 1 /\ passReads' # passReads) =>
        \A c \in Comps, p \in Paths, q \in ParamsIn, nt \in NoThrows,
           ttl \in TTLs :
          LET k == KeyOf(p, q)
              refetched ==
                /\ lastRet'[c] = [kind |-> "ret", val |-> Null, name |-> k]
                /\ Len(fetches') = Len(fetches) + 1
                /\ fetches'[Len(fetches')].key = k
          IN  (~HasEntry(k) /\ ~refetched) => ~UseRest(c, p, q, nt, ttl) ]_vars

\* C37: a read with a TTL T of a non-null value that was obtained more than
\* T ago issues a transport GET, whether the value was stored by a fetch
\* (obtained at the entry's stamp) or seeded from the hydration snapshot
\* (obtained when the page booted, at time 1, and never touched since: no
\* namespace was replaced and the key has no cache entry yet).
C37_ExpiresWhateverOrigin ==
    [][ (passReads' # passReads) =>
        \A c \in Comps, p \in Paths, q \in ParamsIn, nt \in NoThrows,
           ttl \in { t \in TTLs : TruthyNum(t) } :
          LET k == KeyOf(p, q)
              nonNull == k \in DOMAIN ctx /\ ~IsNullish(ctx[k].value)
              fetched == /\ HasEntry(k)
                         /\ ctxRest[k].time.def
                         /\ now - ctxRest[k].time.n > ttl.n
              hydrated == /\ ~HasEntry(k)
                          /\ gen = 0
                          /\ now - 1 > ttl.n
              issued == /\ Len(fetches') = Len(fetches) + 1
                        /\ fetches'[Len(fetches')].key = k
          IN  (nonNull /\ (fetched \/ hydrated) /\ ~issued)
                 => ~UseRest(c, p, q, nt, ttl) ]_vars

\* the caching of a failure, for the TTLs in T: while the variable of a key
\* holds {error}, a read that supplies no TTL issues no transport call; a
\* read that supplies a TTL of T, more than that TTL after the failure was
\* stamped on the entry, issues the GET for the key
FailureRule(T) ==
    (passReads' # passReads) =>
    \A c \in Comps, p \in Paths, q \in ParamsIn, nt \in NoThrows, ttl \in TTLs :
        LET k == KeyOf(p, q)
            failed == k \in DOMAIN ctx /\ ctx[k].value.t = "envError"
            rule ==
              /\ ~ttl.def => fetches' = fetches
              /\ (ttl \in T /\ HasEntry(k) /\ ctxRest[k].time.def
                    /\ now - ctxRest[k].time.n > ttl.n) =>
                    /\ Len(fetches') = Len(fetches) + 1
                    /\ fetches'[Len(fetches')].key = k
        IN  (failed /\ ~rule) => ~UseRest(c, p, q, nt, ttl)

\* C38 as stated: a failed fetch is cached like a successful one, for reads
\* without TTL and for reads with any supplied TTL.
C38_AnyTTL == [][ FailureRule({ ttl \in TTLs : ttl.def }) ]_vars
\* C38: a failed fetch is cached like a successful one, for reads without
\* TTL and for reads that supply a TTL greater than zero.
C38_FailureCached == [][ FailureRule({ ttl \in TTLs : TruthyNum(ttl) }) ]_vars
\* a failed and stamped entry was read some time later (with noThrow), and
\* no GET is in flight for it
C38_Witness ==
    /\ pc = "render"
    /\ passReads[K1] >= 1
    /\ HasEntry(K1)
    /\ ctx[K1].value.t = "envError"
    /\ ctxRest[K1].time.def
    /\ now > ctxRest[K1].time.n
    /\ lastRet["c1"] = [kind |-> "ret", val |-> JSFalse, name |-> K1]
    /\ Pending(K1) = {}

\* the (path, paramsKey) pairs whose result getInitial() exported
Shipped ==
    { a \in {"a"} \X {"(null)", "q"} :
        a[1] \in DOMAIN registry.init /\ a[2] \in DOMAIN registry.init[a[1]] }

\* C39: setInitial(getInitial()) restores, for every (path, paramsKey) whose
\* request had settled, an entry whose result equals the original
\* {error, value}; a component that then reads the key receives that
\* result, and no transport call is issued for the key.
C39_InitialRestored ==
    [](registry.side = "client" =>
         \A a \in Shipped :
            /\ a[1] \in DOMAIN registry.tab
            /\ a[2] \in DOMAIN registry.tab[a[1]]
            /\ registry.tab[a[1]][a[2]].res = registry.init[a[1]][a[2]]
            /\ registry.tab[a[1]][a[2]].inflight = 0
            /\ \A c \in AllComps :
                 (/\ RegistryArgs[c].path = a[1]
                  /\ ParamsKey(RegistryArgs[c].params) = a[2]
                  /\ c \in registry.tab[a[1]][a[2]].cb)
                    => registry.view[c].v = registry.init[a[1]][a[2]])

====
